---- MODULE Spec2Model ----
(***************************************************************************)
(* Fuel Tracker Israel: the price-update-and-alert pipeline of             *)
(* server/cron/scheduler.js and the users API of server/routes/users.js.   *)
(*                                                                         *)
(* Prices are integers in agorot (1/100 NIS); times are integers in        *)
(* milliseconds.  A value a document does not have (a missing price, a     *)
(* lastTriggered never set) is Undefined.                                  *)
(***************************************************************************)
EXTENDS Integers, Sequences, FiniteSets, TLC

VARIABLES
    stations,         \* Station collection: station id -> document
    users,            \* User collection: user id -> document
    now,              \* the wall clock, Date.now()
    ticks,            \* cron firings so far
    pc,               \* per cron trigger: where its scrapeFuelPrices run is
                      \* ("done": it has returned and is being looked at)
    stationDocs,      \* per run: the documents Station.find returned
    si,               \* per run: index of the station the loop is at
    userDocs,         \* per run: the populated documents User.find returned
    ui,               \* per run: index of the user the loop is at
    triggeredAlerts,  \* per run: the batch of the user being processed
    passLog,          \* per run: what the run has done so far
    notifLog,         \* per alert: the times of its batch entries, in order
    nextAlertId,      \* the _id the next pushed alert subdocument gets
    response,         \* the last response of the API
    req,              \* the request whose handler is at its await of save()
    requests,         \* requests received while runs are in flight
    limiter,          \* the client's RateLimiter and what its calls returned
    cache,            \* the client's liveDataCache and what its calls returned
    live              \* the client's call of a live-data function in flight

vars == <<stations, users, now, ticks, pc, stationDocs, si,
          userDocs, ui, triggeredAlerts, passLog, notifLog, nextAlertId,
          response, req, requests, limiter, cache, live>>

\* the state of the client
clientVars == <<limiter, cache, live>>

----------------------------------------------------------------------------
(* Bounds of the model *)

MaxTicks == 2        \* cron firings explored
MaxClock == 3        \* the clock is explored up to MaxClock * TimeStep
MaxVersion == 3      \* user documents are explored up to this __v
MaxAlertId == 7      \* alert subdocuments are created up to this _id

\* one clock advance, 13 hours: two passes are 0 or 13 hours apart (inside
\* the 24-hour window) or 26 hours and more (outside it)
TimeStep == 13 * 60 * 60 * 1000

----------------------------------------------------------------------------
(* Values *)

Undefined == -1

Fuel == {"gasoline95", "gasoline98", "diesel"}

Runs == {"every2h", "every30m"}

StationIds == {1, 2, 3}

UserIds == {1, 2, 3}

UserOrder == <<1, 2, 3>>

AlertIds == {1, 2, 3, 4, 5, 6}

StationOrder == <<1, 2, 3>>

\* the draws of (Math.random() - 0.5) * 0.20 the model explores, in agorot
Variations == {-10, 5}

DayMs == 24 * 60 * 60 * 1000

Max(a, b) == IF a >= b THEN a ELSE b

\* JavaScript truthiness of a number that may be missing
Truthy(x) == x # Undefined /\ x # 0

----------------------------------------------------------------------------
(* The Price Mutator: scrapeFuelPrices *)

Floor == [gasoline95 |-> 600, gasoline98 |-> 620, diesel |-> 580]

MutatePriceNoClamp(f, price, d) ==
    IF Truthy(price) THEN price + d ELSE price

\* one fuel type's new price
MutatePrice(f, price, d) ==
    IF Truthy(price) THEN Max(Floor[f], price + d) ELSE price

MutateStationNoStamp(doc, d, t) ==
    [doc EXCEPT
        !.fuelTypes = [f \in Fuel |->
            IF Truthy(doc.fuelTypes[f].price)
            THEN [price |-> MutatePrice(f, doc.fuelTypes[f].price, d),
                  lastUpdated |-> doc.fuelTypes[f].lastUpdated]
            ELSE doc.fuelTypes[f]]]

MutateStationRedrawn(doc, d, t) ==
    [doc EXCEPT
        !.fuelTypes = [f \in Fuel |->
            IF Truthy(doc.fuelTypes[f].price)
            THEN [price |-> MutatePrice(f, doc.fuelTypes[f].price,
                                        IF f = "diesel" THEN d + 5 ELSE d),
                  lastUpdated |-> t]
            ELSE doc.fuelTypes[f]],
        !.lastScraped = t]

\* the station document after the loop body, before save()
MutateStation(doc, d, t) ==
    [doc EXCEPT
        !.fuelTypes = [f \in Fuel |->
            IF Truthy(doc.fuelTypes[f].price)
            THEN [price |-> MutatePrice(f, doc.fuelTypes[f].price, d),
                  lastUpdated |-> t]
            ELSE doc.fuelTypes[f]],
        !.lastScraped = t]

SaveStationIfUnchanged(stored, read, doc) ==
    IF stored.fuelTypes = read.fuelTypes
    THEN [stored EXCEPT !.fuelTypes = doc.fuelTypes,
                        !.lastScraped = doc.lastScraped]
    ELSE stored

SaveStationAdding(stored, read, doc) ==
    [stored EXCEPT
        !.fuelTypes = [f \in Fuel |->
            [price |-> IF doc.fuelTypes[f].price # read.fuelTypes[f].price
                       THEN stored.fuelTypes[f].price
                                + (doc.fuelTypes[f].price
                                       - read.fuelTypes[f].price)
                       ELSE stored.fuelTypes[f].price,
             lastUpdated |->
                       IF doc.fuelTypes[f].lastUpdated
                              # read.fuelTypes[f].lastUpdated
                       THEN doc.fuelTypes[f].lastUpdated
                       ELSE stored.fuelTypes[f].lastUpdated]],
        !.lastScraped = IF doc.lastScraped # read.lastScraped
                        THEN doc.lastScraped ELSE stored.lastScraped]

\* document.save() sends the paths whose value changed since the read
SaveStation(stored, read, doc) ==
    [stored EXCEPT
        !.fuelTypes = [f \in Fuel |->
            [price |-> IF doc.fuelTypes[f].price # read.fuelTypes[f].price
                       THEN doc.fuelTypes[f].price
                       ELSE stored.fuelTypes[f].price,
             lastUpdated |->
                       IF doc.fuelTypes[f].lastUpdated
                              # read.fuelTypes[f].lastUpdated
                       THEN doc.fuelTypes[f].lastUpdated
                       ELSE stored.fuelTypes[f].lastUpdated]],
        !.lastScraped = IF doc.lastScraped # read.lastScraped
                        THEN doc.lastScraped ELSE stored.lastScraped]

\* Station.find({ isActive: true })
ActiveStations ==
    LET ids == SelectSeq(StationOrder, LAMBDA s : stations[s].isActive)
    IN  [i \in DOMAIN ids |-> stations[ids[i]]]

----------------------------------------------------------------------------
(* The Alert Evaluator: checkPriceAlerts *)

\* what populate('priceAlerts.stationId') leaves for a reference that
\* resolves to no station
NoStation == [_id |-> 0]

\* User.find({ 'priceAlerts.isActive': true,
\*             'preferences.emailNotifications': true })
MatchesAlertQuery(u) ==
    /\ users[u].preferences.emailNotifications
    /\ \E i \in DOMAIN users[u].priceAlerts : users[u].priceAlerts[i].isActive

\* .populate('priceAlerts.stationId')
Populate(user) ==
    [user EXCEPT !.priceAlerts = [i \in DOMAIN user.priceAlerts |->
        [_id |-> user.priceAlerts[i]._id,
         stationId |-> user.priceAlerts[i].stationId,
         fuelType |-> user.priceAlerts[i].fuelType,
         targetPrice |-> user.priceAlerts[i].targetPrice,
         isActive |-> user.priceAlerts[i].isActive,
         lastTriggered |-> user.priceAlerts[i].lastTriggered,
         station |-> IF user.priceAlerts[i].stationId \in DOMAIN stations
                     THEN stations[user.priceAlerts[i].stationId]
                     ELSE NoStation]]]

UsersWithAlerts ==
    LET ids == SelectSeq(UserOrder, MatchesAlertQuery)
    IN  [i \in DOMAIN ids |-> Populate(users[ids[i]])]

\* station.fuelTypes[alert.fuelType]?.price
CurrentPrice(alert) ==
    IF alert.station = NoStation THEN Undefined
    ELSE alert.station.fuelTypes[alert.fuelType].price

NotRecentlyNoWindow(lastTriggered, t) == TRUE

NotRecentlyOnlyNever(lastTriggered, t) == lastTriggered = Undefined

\* !lastTriggered || lastTriggered < oneDayAgo
NotRecently(lastTriggered, t) ==
    lastTriggered = Undefined \/ lastTriggered < t - DayMs

TriggersBelowOnly(alert, t) ==
    /\ alert.isActive
    /\ alert.station # NoStation
    /\ Truthy(CurrentPrice(alert))
    /\ CurrentPrice(alert) < alert.targetPrice
    /\ NotRecently(alert.lastTriggered, t)

TriggersIgnoringActive(alert, t) ==
    /\ alert.station # NoStation
    /\ Truthy(CurrentPrice(alert))
    /\ CurrentPrice(alert) <= alert.targetPrice
    /\ NotRecently(alert.lastTriggered, t)

\* the conditions under which the loop body pushes an entry for the alert
Triggers(alert, t) ==
    /\ alert.isActive
    /\ alert.station # NoStation
    /\ Truthy(CurrentPrice(alert))
    /\ CurrentPrice(alert) <= alert.targetPrice
    /\ NotRecently(alert.lastTriggered, t)

RECURSIVE BatchTwice(_, _, _)
BatchTwice(user, t, i) ==
    IF i > Len(user.priceAlerts) THEN <<>>
    ELSE IF Triggers(user.priceAlerts[i], t)
         THEN LET entry == [alertId |-> user.priceAlerts[i]._id,
                            stationId |-> user.priceAlerts[i].station._id,
                            fuelType |-> user.priceAlerts[i].fuelType,
                            currentPrice |-> CurrentPrice(user.priceAlerts[i]),
                            targetPrice |-> user.priceAlerts[i].targetPrice]
              IN  <<entry, entry>> \o BatchTwice(user, t, i + 1)
         ELSE BatchTwice(user, t, i + 1)

RECURSIVE Batch(_, _, _)
\* triggeredAlerts after the inner loop has processed alerts i..
Batch(user, t, i) ==
    IF i > Len(user.priceAlerts) THEN <<>>
    ELSE IF Triggers(user.priceAlerts[i], t)
         THEN <<[alertId |-> user.priceAlerts[i]._id,
                 stationId |-> user.priceAlerts[i].station._id,
                 fuelType |-> user.priceAlerts[i].fuelType,
                 currentPrice |-> CurrentPrice(user.priceAlerts[i]),
                 targetPrice |-> user.priceAlerts[i].targetPrice]>>
              \o Batch(user, t, i + 1)
         ELSE Batch(user, t, i + 1)

\* the user document after the inner loop
MarkTriggered(user, t) ==
    [user EXCEPT !.priceAlerts = [i \in DOMAIN user.priceAlerts |->
        IF Triggers(user.priceAlerts[i], t)
        THEN [user.priceAlerts[i] EXCEPT !.lastTriggered = t]
        ELSE user.priceAlerts[i]]]

SaveUserNothing(stored, doc, batch) == stored

\* user.save() sends the paths set since the read: the lastTriggered of the
\* alerts of the batch, each addressed by its position in the array
SaveUser(stored, doc, batch) ==
    [stored EXCEPT !.priceAlerts = [i \in DOMAIN stored.priceAlerts |->
        IF /\ i \in DOMAIN doc.priceAlerts
           /\ \E k \in DOMAIN batch : batch[k].alertId = doc.priceAlerts[i]._id
        THEN [stored.priceAlerts[i] EXCEPT
                 !.lastTriggered = doc.priceAlerts[i].lastTriggered]
        ELSE stored.priceAlerts[i]]]

\* a save that sets a path inside an array by position carries the __v the
\* document was read at, and fails with a VersionError if the stored
\* document has another
VersionMatches(stored, doc) == stored.__v = doc.__v

AfterSendMailNoCatch(ok) == IF ok THEN "saveUser" ELSE "done"

\* where checkPriceAlerts goes on after await sendPriceAlertEmail: the
\* notifier catches a failed send itself
AfterSendMail(ok) == "saveUser"

----------------------------------------------------------------------------
(* Initial state *)

Price(p, t) == [price |-> p, lastUpdated |-> t]

Alert(id, s, f, target) ==
    [_id |-> id, stationId |-> s, fuelType |-> f, targetPrice |-> target,
     isActive |-> TRUE, lastTriggered |-> Undefined]

\* three stations: two active, one of them with a zero price and without
\* diesel, and one inactive
InitStations ==
    (1 :> [_id |-> 1, isActive |-> TRUE, lastScraped |-> 0,
           fuelTypes |-> [gasoline95 |-> Price(605, 0),
                          gasoline98 |-> Price(715, 0),
                          diesel |-> Price(640, 0)]])
    @@ (2 :> [_id |-> 2, isActive |-> TRUE, lastScraped |-> 0,
           fuelTypes |-> [gasoline95 |-> Price(600, 0),
                          gasoline98 |-> Price(0, 0),
                          diesel |-> Price(Undefined, Undefined)]])
    @@ (3 :> [_id |-> 3, isActive |-> FALSE, lastScraped |-> 0,
           fuelTypes |-> [gasoline95 |-> Price(610, 0),
                          gasoline98 |-> Price(630, 0),
                          diesel |-> Price(590, 0)]])

\* the preferences of a user who has set none but emailNotifications: the
\* schema's defaults, and no defaultCity
Preferences(emailNotifications) ==
    [defaultCity |-> "undefined", preferredFuelType |-> "gasoline95",
     emailNotifications |-> emailNotifications, pushNotifications |-> FALSE]

\* two users with email notifications on and fresh alerts: one above its
\* station's price, one at it, one on the zero price, an inactive one that
\* is above its station's price and one whose station is gone; and a user
\* with email notifications off, whose alert is above its station's price
InitUsers ==
    (1 :> [_id |-> 1, __v |-> 0,
           email |-> "avi@example.com", password |-> "hash1",
           firstName |-> "Avi", lastName |-> "Cohen", phone |-> "",
           preferences |-> Preferences(TRUE),
           favoriteStations |-> <<>>,
           priceAlerts |-> <<Alert(1, 1, "diesel", 630),
                             [Alert(4, 1, "gasoline98", 800)
                                 EXCEPT !.isActive = FALSE]>>])
    @@ (2 :> [_id |-> 2, __v |-> 0,
           email |-> "noa@example.com", password |-> "hash2",
           firstName |-> "Noa", lastName |-> "Peretz", phone |-> "",
           preferences |-> Preferences(TRUE),
           favoriteStations |-> <<>>,
           priceAlerts |-> <<Alert(2, 2, "gasoline95", 600),
                             Alert(3, 2, "gasoline98", 650),
                             Alert(5, 4, "diesel", 800)>>])
    @@ (3 :> [_id |-> 3, __v |-> 0,
           email |-> "gil@example.com", password |-> "hash3",
           firstName |-> "Gil", lastName |-> "Mizrahi", phone |-> "",
           preferences |-> Preferences(FALSE),
           favoriteStations |-> <<>>,
           priceAlerts |-> <<Alert(6, 1, "diesel", 800)>>])

NoCalls == [u \in UserIds |-> 0]

FreshLog ==
    [started |-> FALSE, draw |-> 0, stationsRead |-> {}, stationsSaved |-> {},
     stationFailed |-> {}, evaluatorCalled |-> FALSE, usersRead |-> {},
     usersEvaluated |-> {}, triggered |-> {}, batchSize |-> NoCalls, notifierCalls |-> NoCalls,
     mailSent |-> {}, mailFailed |-> {}, usersSaved |-> {},
     userSaveFailed |-> {}, scrapeCaught |-> FALSE, alertsCaught |-> FALSE]

NoResponse == [op |-> "none", status |-> 0]

NoRequest == [op |-> "none"]

runVars == <<ticks, pc, stationDocs, si, userDocs, ui, triggeredAlerts,
             passLog, notifLog>>

InitRuns ==
    /\ ticks = 0
    /\ pc = [r \in Runs |-> "idle"]
    /\ stationDocs = [r \in Runs |-> <<>>]
    /\ si = [r \in Runs |-> 0]
    /\ userDocs = [r \in Runs |-> <<>>]
    /\ ui = [r \in Runs |-> 0]
    /\ triggeredAlerts = [r \in Runs |-> <<>>]
    /\ passLog = [r \in Runs |-> FreshLog]
    /\ notifLog = [a \in AlertIds |-> <<>>]

----------------------------------------------------------------------------
(* The client's RateLimiter: the security configuration file *)

LimiterRequests == 2     \* the requests the limiter is constructed with

\* the window the limiter is constructed with: the default, 15 minutes
LimiterWindowMs == 15 * 60 * 1000

\* a JavaScript number; NaN is the number that is not one
Num(n) == [type |-> "number", nan |-> FALSE, value |-> n]

NaN == [type |-> "number", nan |-> TRUE, value |-> 0]

\* a Map with the given entries (key -> value), and new Map()
MapOf(entries) == [type |-> "map", entries |-> entries]

EmptyMap == MapOf(<<>>)

\* ToNumber: a number is itself, a Map is NaN (its primitive is the string
\* "[object Map]")
ToNumber(v) == IF v.type = "number" THEN v ELSE NaN

\* a >= b: false when either side is NaN
GreaterOrEqual(a, b) ==
    /\ ~ToNumber(a).nan
    /\ ~ToNumber(b).nan
    /\ ToNumber(a).value >= ToNumber(b).value

\* a - b: NaN when either side is NaN
Minus(a, b) ==
    IF ToNumber(a).nan \/ ToNumber(b).nan THEN NaN
    ELSE Num(ToNumber(a).value - ToNumber(b).value)

\* Math.max(a, b): NaN when either argument is NaN
MathMax(a, b) ==
    IF ToNumber(a).nan \/ ToNumber(b).nan THEN NaN
    ELSE Num(Max(ToNumber(a).value, ToNumber(b).value))

\* constructor(requests, windowMs), with reqs for its first parameter:
\* this.requests takes the number, then this.windowMs the window, then
\* this.requests takes the Map
RateLimiter(reqs, windowMs) ==
    LET first == [requests |-> Num(reqs)]
        second == [requests |-> first.requests, windowMs |-> windowMs]
    IN  [requests |-> EmptyMap, windowMs |-> second.windowMs]

\* the "clean old entries" loop: the entries of the Map whose timestamp is
\* not before the start of the window
Cleaned(map, windowStart) ==
    MapOf([t \in {k \in DOMAIN map.entries : ~(k < windowStart)}
              |-> map.entries[t]])

\* Array.from(map.values()).reduce((sum, count) => sum + count, 0)
RECURSIVE SumOver(_, _)
SumOver(entries, keys) ==
    IF keys = {} THEN 0
    ELSE LET k == CHOOSE x \in keys : TRUE
         IN  entries[k] + SumOver(entries, keys \ {k})

CurrentRequests(map) == SumOver(map.entries, DOMAIN map.entries)

\* map.set(key, value)
MapSet(map, key, value) ==
    MapOf([k \in DOMAIN map.entries \cup {key} |->
              IF k = key THEN value ELSE map.entries[k]])

\* isAllowed(key) at time t: the limiter it leaves and what it returns
IsAllowed(this, key, t) ==
    LET windowStart == t - this.windowMs
        cleaned == Cleaned(this.requests, windowStart)
        currentRequests == CurrentRequests(cleaned)
    IN  IF GreaterOrEqual(Num(currentRequests), this.requests)
        THEN [this |-> [this EXCEPT !.requests = cleaned],
              returned |-> FALSE]
        ELSE [this |-> [this EXCEPT !.requests =
                  MapSet(cleaned, t,
                         (IF t \in DOMAIN cleaned.entries
                          THEN cleaned.entries[t] ELSE 0) + 1)],
              returned |-> TRUE]

\* getRemainingRequests() at time t: the limiter it leaves and what it
\* returns
GetRemainingRequests(this, t) ==
    LET windowStart == t - this.windowMs
        cleaned == Cleaned(this.requests, windowStart)
        currentRequests == CurrentRequests(cleaned)
    IN  [this |-> [this EXCEPT !.requests = cleaned],
         returned |-> MathMax(Num(0),
                              Minus(this.requests, Num(currentRequests)))]

\* a limiter of LimiterRequests requests; calls: the isAllowed calls so far
\* (time, what was returned); remaining: what the last getRemainingRequests
\* returned, when, and after how many of the calls
InitLimiter ==
    [this |-> RateLimiter(LimiterRequests, LimiterWindowMs),
     calls |-> <<>>,
     remaining |-> <<>>]

----------------------------------------------------------------------------
(* The client's LiveDataCache: client/src/services/liveDataService.js *)

\* this.cacheTimeout: 5 minutes
CacheTimeout == 5 * 60 * 1000

\* null, among the data the model stores
Null == "null"

\* constructor()
LiveDataCache == [cache |-> EmptyMap, cacheTimeout |-> CacheTimeout]

\* set(key, data) at time t
CacheSet(this, key, data, t) ==
    [this EXCEPT !.cache = MapSet(@, key, [data |-> data, timestamp |-> t])]

\* map.delete(key)
MapDelete(map, key) ==
    MapOf([k \in DOMAIN map.entries \ {key} |-> map.entries[k]])

CacheGetNeverExpires(this, key, t) ==
    IF key \notin DOMAIN this.cache.entries
    THEN [this |-> this, returned |-> Null]
    ELSE [this |-> this, returned |-> this.cache.entries[key].data]

\* get(key) at time t: the cache it leaves and what it returns
CacheGet(this, key, t) ==
    IF key \notin DOMAIN this.cache.entries
    THEN [this |-> this, returned |-> Null]
    ELSE LET cached == this.cache.entries[key]
         IN  IF t - cached.timestamp > this.cacheTimeout
             THEN [this |-> [this EXCEPT !.cache = MapDelete(@, key)],
                   returned |-> Null]
             ELSE [this |-> this, returned |-> cached.data]

\* clear()
CacheClear(this) == [this EXCEPT !.cache = EmptyMap]

\* the keys and the data the model stores
CacheKeys == {"currencyRates", "israelFuelPrices"}

CacheData == {"first", "second"}

\* no set yet, or none since the last clear
NeverSet == [data |-> Null, at |-> Undefined]

\* an empty cache; lastSet: per key the data and the time of the most recent
\* set since the last clear; got: the last get (key, time, what it returned)
InitCache ==
    [this |-> LiveDataCache,
     lastSet |-> [k \in CacheKeys |-> NeverSet],
     got |-> <<>>]

----------------------------------------------------------------------------
(* The client's live data: client/src/services/liveDataService.js *)

\* API_CONFIG.RETRY_ATTEMPTS, the default of fetchWithRetry's retries
RetryAttempts == 3

MaxRetries == 3      \* the largest retries fetchWithRetry is called with

Getters ==
    {"getCurrencyRates", "getWeatherData", "getIsraelFuelPrices",
     "getUSAFuelPrices", "getEuropeFuelPrices", "getLiveNews"}

\* the getters that read a property of a property of the body (data.rates.EUR,
\* data.main.temp, data.articles.map)
NestedReaders == {"getCurrencyRates", "getWeatherData", "getLiveNews"}

\* the getters whose data carry lastUpdated
Stamping == Getters \ {"getLiveNews"}

\* the data in the catch block of each getter, without lastUpdated; numbers
\* in hundredths
Fallback ==
    [getCurrencyRates |-> [USD |-> 100, EUR |-> 85, ILS |-> 365],
     getWeatherData |-> [temperature |-> 2200, humidity |-> 6000,
                         pressure |-> 101300, description |-> "clear sky",
                         icon |-> "01d", windSpeed |-> 350],
     getIsraelFuelPrices |-> [gasoline95 |-> 685, gasoline98 |-> 712,
                              diesel |-> 641],
     getUSAFuelPrices |-> [regular |-> 324, midgrade |-> 352,
                           premium |-> 381, diesel |-> 358],
     getEuropeFuelPrices |-> [gasoline95 |-> 162, gasoline98 |-> 179,
                              diesel |-> 151],
     getLiveNews |-> [articles |-> "mockData.news"]]

\* what each getter makes of a body that has every property it reads:
\* values that are not the fallback's
Live ==
    [getCurrencyRates |-> [USD |-> 100, EUR |-> 92, ILS |-> 370],
     getWeatherData |-> [temperature |-> 3100, humidity |-> 4000,
                         pressure |-> 100900, description |-> "few clouds",
                         icon |-> "02d", windSpeed |-> 500],
     getIsraelFuelPrices |-> [gasoline95 |-> 701, gasoline98 |-> 733,
                              diesel |-> 655],
     getUSAFuelPrices |-> [regular |-> 330, midgrade |-> 360,
                           premium |-> 390, diesel |-> 365],
     getEuropeFuelPrices |-> [gasoline95 |-> 170, gasoline98 |-> 185,
                              diesel |-> 160],
     getLiveNews |-> [articles |-> "data.articles"]]

\* the JSON bodies the model receives: one with every property a getter
\* reads ("full"), one with those properties at 0, "" or [] ("zeros"), the
\* object without properties ("empty"), and null
Bodies == {"full", "zeros", "empty", "null"}

\* reading the property a getter's field comes from
BodyField(g, body, f) ==
    IF body = "full" THEN Live[g][f]
    ELSE IF body = "zeros"
    THEN (IF f \in {"description", "icon"} THEN ""
          ELSE IF f = "articles" THEN "[]" ELSE 0)
    ELSE Undefined

\* a || b on the numbers of the model
Or(a, b) == IF Truthy(a) THEN a ELSE b

\* the try block of getter g throws a TypeError on this body: any property of
\* null, or a property of a property that is undefined
Throws(g, body) ==
    \/ body = "null"
    \/ (body = "empty" /\ g \in NestedReaders)

\* data with lastUpdated: new Date().toISOString(), for the getters that
\* stamp
Stamped(g, data, t) ==
    IF g \in Stamping
    THEN [f \in DOMAIN data \cup {"lastUpdated"} |->
             IF f = "lastUpdated" THEN t ELSE data[f]]
    ELSE data

\* the data of getter g's try block
Extract(g, body) ==
    IF g \in {"getWeatherData", "getLiveNews"}
    THEN [f \in DOMAIN Fallback[g] |-> BodyField(g, body, f)]
    ELSE [f \in DOMAIN Fallback[g] |->
             IF f = "USD" THEN 100
             ELSE Or(BodyField(g, body, f), Fallback[g][f])]

\* what fetchWithRetry settles with
Resolved(value) == [kind |-> "resolved", value |-> value]

RejectedWith(error) == [kind |-> "rejected", value |-> error]

GetterResultRethrowing(g, settled, t) ==
    IF settled.kind = "resolved" /\ ~Throws(g, settled.value)
    THEN Resolved([success |-> TRUE,
                   data |-> Stamped(g, Extract(g, settled.value), t)])
    ELSE IF settled.kind = "rejected" THEN settled
    ELSE Resolved([success |-> FALSE, data |-> Stamped(g, Fallback[g], t)])

\* what getter g settles with, given what its fetchWithRetry settled with
GetterResult(g, settled, t) ==
    IF settled.kind = "resolved" /\ ~Throws(g, settled.value)
    THEN Resolved([success |-> TRUE,
                   data |-> Stamped(g, Extract(g, settled.value), t)])
    ELSE Resolved([success |-> FALSE, data |-> Stamped(g, Fallback[g], t)])

\* no call in flight.  fn: the function called; retries: the retries of the
\* fetchWithRetry at work; asked: the retries of the first one; attempts:
\* the fetch calls made; body: what the response in hand will give as its
\* body; errors: what the attempts so far failed with; settled: what the
\* call settled with
InitLive ==
    [pc |-> "idle", fn |-> "none", retries |-> 0, asked |-> 0, attempts |-> 0,
     body |-> Null, errors |-> <<>>, settled |-> [kind |-> "none"]]

Init ==
    /\ stations = InitStations
    /\ users = InitUsers
    /\ now = TimeStep
    /\ InitRuns
    /\ nextAlertId = 7
    /\ response = NoResponse
    /\ req = NoRequest
    /\ requests = 0
    /\ limiter = InitLimiter
    /\ cache = InitCache
    /\ live = InitLive

----------------------------------------------------------------------------
(* The clock and the two cron triggers *)

apiVars == <<nextAlertId, response, req, requests>>

\* the locals of run r after a step: its control point, the station
\* documents and loop index, the user documents and loop index, the batch
\* (a run that has returned is looked at and forgotten before anything
\* else happens)
SetRun(r, p, sd, i, ud, j, batch) ==
    /\ \A q \in Runs : pc[q] # "done"
    /\ pc' = [pc EXCEPT ![r] = p]
    /\ stationDocs' = [stationDocs EXCEPT ![r] = sd]
    /\ si' = [si EXCEPT ![r] = i]
    /\ userDocs' = [userDocs EXCEPT ![r] = ud]
    /\ ui' = [ui EXCEPT ![r] = j]
    /\ triggeredAlerts' = [triggeredAlerts EXCEPT ![r] = batch]

\* scrapeFuelPrices returns: its locals are gone
EndRun(r) == SetRun(r, "done", <<>>, 0, <<>>, 0, <<>>)

\* the entries a batch adds to the log
Logged(batch, t) ==
    [a \in AlertIds |->
        notifLog[a] \o [k \in 1..Cardinality({i \in DOMAIN batch :
                                                batch[i].alertId = a}) |-> t]]

\* time passes between runs: a run takes far less than one TimeStep
Advance ==
    /\ now < MaxClock * TimeStep
    /\ \A r \in Runs : pc[r] = "idle"
    /\ now' = now + TimeStep
    /\ UNCHANGED <<stations, users, ticks, pc, stationDocs, si,
                   userDocs, ui, triggeredAlerts, passLog, notifLog, apiVars,
                   clientVars>>

\* cron.schedule(..., () => { scrapeFuelPrices(); }): a trigger fires and
\* its run goes up to await Station.find.  The triggers fire together (at
\* minute 0 of an even hour from 8 to 20) or at least 30 minutes apart, so
\* a run starts when no run is in flight or when the other has just started
Tick(r) ==
    /\ pc[r] = "idle"
    /\ \A q \in Runs : pc[q] \in {"idle", "findStations"}
    /\ ticks < MaxTicks
    /\ ticks' = ticks + 1
    /\ SetRun(r, "findStations", <<>>, 0, <<>>, 0, <<>>)
    /\ passLog' = [passLog EXCEPT ![r] = [FreshLog EXCEPT !.started = TRUE]]
    /\ UNCHANGED <<stations, users, now, notifLog, apiVars, clientVars>>

\* await Station.find({ isActive: true }) returns, or throws into the
\* catch of scrapeFuelPrices; with no active station the loop is skipped
\* and checkPriceAlerts runs up to await User.find
FindStations(r, ok) ==
    /\ pc[r] = "findStations"
    /\ IF ok
       THEN /\ IF Len(ActiveStations) = 0
               THEN SetRun(r, "findUsers", <<>>, 0, <<>>, 0, <<>>)
               ELSE SetRun(r, "stations", ActiveStations, 1, <<>>, 0, <<>>)
            /\ passLog' = [passLog EXCEPT
                   ![r].stationsRead =
                       {ActiveStations[i]._id : i \in DOMAIN ActiveStations},
                   ![r].evaluatorCalled = Len(ActiveStations) = 0]
       ELSE /\ EndRun(r)
            /\ passLog' = [passLog EXCEPT ![r].scrapeCaught = TRUE]
    /\ UNCHANGED <<stations, users, now, ticks, notifLog, apiVars, clientVars>>

\* one iteration of the station loop: draw, mutate the three prices, stamp,
\* await station.save(); a failed save throws into the catch of
\* scrapeFuelPrices, a successful one goes on to the next station or, after
\* the last, into checkPriceAlerts up to await User.find
UpdateStation(r, d, ok) ==
    /\ pc[r] = "stations"
    /\ LET read == stationDocs[r][si[r]]
           doc == MutateStation(read, d, now)
           last == si[r] = Len(stationDocs[r])
       IN  IF ok
           THEN /\ stations' = [stations EXCEPT ![read._id] =
                       SaveStation(stations[read._id], read, doc)]
                /\ IF last
                   THEN SetRun(r, "findUsers", <<>>, 0, <<>>, 0, <<>>)
                   ELSE SetRun(r, "stations", stationDocs[r], si[r] + 1,
                               <<>>, 0, <<>>)
                /\ passLog' = [passLog EXCEPT
                       ![r].draw = d,
                       ![r].stationsSaved = @ \cup {read._id},
                       ![r].evaluatorCalled = last]
           ELSE /\ EndRun(r)
                /\ passLog' = [passLog EXCEPT
                       ![r].draw = d,
                       ![r].stationFailed = @ \cup {read._id},
                       ![r].scrapeCaught = TRUE]
                /\ UNCHANGED stations
    /\ UNCHANGED <<users, now, ticks, notifLog, apiVars, clientVars>>

\* await User.find(...).populate(...) returns, or throws into the catch of
\* checkPriceAlerts
FindUsers(r, ok) ==
    /\ pc[r] = "findUsers"
    /\ IF ok
       THEN /\ SetRun(r, "users", <<>>, 0, UsersWithAlerts, 1, <<>>)
            /\ passLog' = [passLog EXCEPT ![r].usersRead =
                   {UsersWithAlerts[i]._id : i \in DOMAIN UsersWithAlerts}]
       ELSE /\ EndRun(r)
            /\ passLog' = [passLog EXCEPT ![r].alertsCaught = TRUE]
    /\ UNCHANGED <<stations, users, now, ticks, notifLog, apiVars, clientVars>>

\* one iteration of the user loop up to its first await: the inner loop
\* over the user's alerts, then either the call of sendPriceAlertEmail up to
\* await transporter.sendMail, or the next user
EvaluateUser(r) ==
    /\ pc[r] = "users"
    /\ ui[r] <= Len(userDocs[r])
    /\ LET read == userDocs[r][ui[r]]
           batch == Batch(read, now, 1)
           doc == MarkTriggered(read, now)
       IN  /\ notifLog' = Logged(batch, now)
           /\ IF Len(batch) > 0
              THEN /\ SetRun(r, "sendMail", <<>>, 0,
                             [userDocs[r] EXCEPT ![ui[r]] = doc], ui[r], batch)
                   /\ passLog' = [passLog EXCEPT
                          ![r].usersEvaluated = @ \cup {read._id},
                          ![r].triggered =
                              @ \cup {batch[k].alertId : k \in DOMAIN batch},
                          ![r].batchSize[read._id] = Len(batch),
                          ![r].notifierCalls[read._id] = @ + 1]
              ELSE /\ SetRun(r, "users", <<>>, 0, userDocs[r], ui[r] + 1, <<>>)
                   /\ passLog' = [passLog EXCEPT
                          ![r].usersEvaluated = @ \cup {read._id}]
    /\ UNCHANGED <<stations, users, now, ticks, apiVars, clientVars>>

\* await transporter.sendMail(mailOptions) returns or throws
SendMail(r, ok) ==
    /\ pc[r] = "sendMail"
    /\ LET u == userDocs[r][ui[r]]._id
       IN  passLog' = [passLog EXCEPT
               ![r].mailSent = IF ok THEN @ \cup {u} ELSE @,
               ![r].mailFailed = IF ok THEN @ ELSE @ \cup {u}]
    /\ IF AfterSendMail(ok) = "done"
       THEN EndRun(r)
       ELSE SetRun(r, AfterSendMail(ok), <<>>, 0, userDocs[r], ui[r],
                   triggeredAlerts[r])
    /\ UNCHANGED <<stations, users, now, ticks, notifLog, apiVars, clientVars>>

\* await user.save() returns, and the loop goes on to the next user, or
\* throws (the store fails, or the document's version is stale) into the
\* catch of checkPriceAlerts
WriteUser(r, ok) ==
    /\ pc[r] = "saveUser"
    /\ LET doc == userDocs[r][ui[r]]
       IN  IF ok /\ VersionMatches(users[doc._id], doc)
           THEN /\ users' = [users EXCEPT ![doc._id] =
                       SaveUser(users[doc._id], doc, triggeredAlerts[r])]
                /\ SetRun(r, "users", <<>>, 0, userDocs[r], ui[r] + 1, <<>>)
                /\ passLog' = [passLog EXCEPT
                       ![r].usersSaved = @ \cup {doc._id}]
           ELSE /\ EndRun(r)
                /\ passLog' = [passLog EXCEPT
                       ![r].userSaveFailed = @ \cup {doc._id},
                       ![r].alertsCaught = TRUE]
                /\ UNCHANGED users
    /\ UNCHANGED <<stations, now, ticks, notifLog, apiVars, clientVars>>

\* after the user loop: line 170 reads triggeredAlerts, which is declared
\* inside the loop body and not in scope here; the ReferenceError is caught
\* by the catch of checkPriceAlerts and the run ends
FinishAlerts(r) ==
    /\ pc[r] = "users"
    /\ ui[r] > Len(userDocs[r])
    /\ EndRun(r)
    /\ passLog' = [passLog EXCEPT ![r].alertsCaught = TRUE]
    /\ UNCHANGED <<stations, users, now, ticks, notifLog, apiVars, clientVars>>

\* the finished run is forgotten; its trigger can fire again
Return(r) ==
    /\ pc[r] = "done"
    /\ pc' = [pc EXCEPT ![r] = "idle"]
    /\ passLog' = [passLog EXCEPT ![r] = FreshLog]
    /\ UNCHANGED <<stations, users, now, ticks, stationDocs, si, userDocs, ui,
                   triggeredAlerts, notifLog, apiVars, clientVars>>

Pipeline ==
    \/ Advance
    \/ \E r \in Runs : Tick(r)
    \/ \E r \in Runs, ok \in BOOLEAN : FindStations(r, ok)
    \/ \E r \in Runs, d \in Variations, ok \in BOOLEAN : UpdateStation(r, d, ok)
    \/ \E r \in Runs, ok \in BOOLEAN : FindUsers(r, ok)
    \/ \E r \in Runs : EvaluateUser(r)
    \/ \E r \in Runs, ok \in BOOLEAN : SendMail(r, ok)
    \/ \E r \in Runs, ok \in BOOLEAN : WriteUser(r, ok)
    \/ \E r \in Runs : FinishAlerts(r)
    \/ \E r \in Runs : Return(r)

Next == Pipeline

Spec == Init /\ [][Next]_vars

----------------------------------------------------------------------------
(* The users API: server/routes/users.js *)

\* An id arrives in a request as a string.  A string of 24 hexadecimal
\* digits is written here as the ObjectId it spells and the case of its
\* letters; any other string is "malformed".
Hex(oid, form) == [oid |-> oid, form |-> form]

\* express-validator's isMongoId: 24 hexadecimal digits, of either case
IsMongoId(str) == str.form \in {"lower", "upper"}

\* Mongoose casts a string of 24 hexadecimal digits of either case to the
\* ObjectId it spells
CastObjectId(str) == str.oid

\* ObjectId.prototype.toString (toHexString) gives the lower-case digits
ToHexString(oid) == Hex(oid, "lower")

\* the fuel types the model sends: two of the three, and one that is none
FuelTypeParams == {"diesel", "gasoline95", "lpg"}

\* the station id strings the model sends: station 1 in lower and in upper
\* case, an id no station has, and a string that is no id
StationIdParams ==
    {Hex(1, "lower"), Hex(1, "upper"), Hex(4, "lower"), Hex(0, "malformed")}

\* the alert id strings the model sends: alert 1 in lower and in upper
\* case, the first alert a request creates, and a string that is no id
AlertIdParams ==
    {Hex(1, "lower"), Hex(1, "upper"), Hex(7, "lower"), Hex(0, "malformed")}

\* the user whose requests the model sends (req.userId)
Requesters == {1}

Respond(op, params, status) ==
    response' = [op |-> op, params |-> params, status |-> status]

StationFoundAlways(stationId) == TRUE

\* Station.findById(stationId) finds a station
StationFound(stationId) == CastObjectId(stationId) \in DOMAIN stations

\* user.priceAlerts.find(alert => alert.stationId.toString() === stationId
\*                                && alert.fuelType === fuelType)
ExistingAlert(user, stationId, fuelType) ==
    \E i \in DOMAIN user.priceAlerts :
        /\ ToHexString(user.priceAlerts[i].stationId) = stationId
        /\ user.priceAlerts[i].fuelType = fuelType

\* what a handler answers and what its save(), if it comes to one, leaves
\* in the store
Outcome(status, user) == [status |-> status, user |-> user]

\* the subdocument user.priceAlerts.push({ stationId, fuelType, targetPrice,
\* isActive: true }) adds
NewAlert(id, stationId, fuelType, targetPrice) ==
    [_id |-> id, stationId |-> CastObjectId(stationId), fuelType |-> fuelType,
     targetPrice |-> targetPrice, isActive |-> TRUE,
     lastTriggered |-> Undefined]

\* POST /api/users/alerts from the duplicate test on; doc is the document
\* User.findById returned, stored the one in the store when save() arrives.
\* The push is sent as $push, with an increment of __v
PostAlertOutcome(stored, doc, p, id) ==
    IF ExistingAlert(doc, p.stationId, p.fuelType)
    THEN Outcome(400, stored)
    ELSE Outcome(201, [stored EXCEPT
             !.priceAlerts = Append(@, NewAlert(id, p.stationId, p.fuelType,
                                                p.targetPrice)),
             !.__v = @ + 1])

\* user.priceAlerts.id(alertId): the subdocument with that _id, if any
AlertIndex(user, alertId) ==
    {i \in DOMAIN user.priceAlerts :
        IsMongoId(alertId) /\ user.priceAlerts[i]._id = CastObjectId(alertId)}

\* Mongoose casts the isActive of the body to the Boolean it spells
CastBoolean(str) == str = "true"

\* PUT /api/users/alerts/:alertId from the lookup of the alert on; the body
\* may lack targetPrice (Undefined) and isActive ("undefined").  The fields
\* that changed are sent as $set of priceAlerts.<position>.<field>, under
\* the __v of the read
PutAlertOutcome(stored, doc, p) ==
    LET found == AlertIndex(doc, p.alertId)
        newTarget(alert) == IF p.targetPrice = Undefined
                            THEN alert.targetPrice ELSE p.targetPrice
        newActive(alert) == IF p.isActive = "undefined"
                            THEN alert.isActive ELSE CastBoolean(p.isActive)
        modified == \E i \in found :
                       \/ newTarget(doc.priceAlerts[i])
                              # doc.priceAlerts[i].targetPrice
                       \/ newActive(doc.priceAlerts[i])
                              # doc.priceAlerts[i].isActive
    IN  IF found = {} THEN Outcome(404, stored)
        ELSE IF ~modified THEN Outcome(200, stored)
        ELSE IF ~VersionMatches(stored, doc) THEN Outcome(500, stored)
        ELSE Outcome(200, [stored EXCEPT !.priceAlerts =
                 [i \in DOMAIN @ |->
                     IF i \in found
                     THEN [@[i] EXCEPT
                             !.targetPrice =
                                 IF newTarget(doc.priceAlerts[i])
                                        # doc.priceAlerts[i].targetPrice
                                 THEN newTarget(doc.priceAlerts[i]) ELSE @,
                             !.isActive =
                                 IF newActive(doc.priceAlerts[i])
                                        # doc.priceAlerts[i].isActive
                                 THEN newActive(doc.priceAlerts[i]) ELSE @]
                     ELSE @[i]]])

\* DELETE /api/users/alerts/:alertId from the filter on.  An array that
\* changed is sent whole, as $set of priceAlerts with the subdocuments as
\* read, under the __v of the read and with an increment of __v
DeleteAlertOutcome(stored, doc, p) ==
    LET filtered == SelectSeq(doc.priceAlerts,
                              LAMBDA alert : ToHexString(alert._id) # p.alertId)
    IN  IF filtered = doc.priceAlerts THEN Outcome(200, stored)
        ELSE IF ~VersionMatches(stored, doc) THEN Outcome(500, stored)
        ELSE Outcome(200, [stored EXCEPT !.priceAlerts = filtered,
                                          !.__v = @ + 1])

\* POST /api/users/favorites from the includes test on.  A Mongoose array's
\* includes compares its argument with each element by ==, which turns the
\* ObjectId into its toString(); push casts the string to an ObjectId
PostFavoriteOutcome(stored, doc, p) ==
    IF \E i \in DOMAIN doc.favoriteStations :
           ToHexString(doc.favoriteStations[i]) = p.stationId
    THEN Outcome(400, stored)
    ELSE Outcome(200, [stored EXCEPT
             !.favoriteStations = Append(@, CastObjectId(p.stationId)),
             !.__v = @ + 1])

\* DELETE /api/users/favorites/:stationId from the filter on
DeleteFavoriteOutcome(stored, doc, p) ==
    LET filtered == SelectSeq(doc.favoriteStations,
                              LAMBDA id : ToHexString(id) # p.stationId)
    IN  IF filtered = doc.favoriteStations THEN Outcome(200, stored)
        ELSE IF ~VersionMatches(stored, doc) THEN Outcome(500, stored)
        ELSE Outcome(200, [stored EXCEPT !.favoriteStations = filtered,
                                          !.__v = @ + 1])

\* the keys of preferences, and the ones Mongoose casts to Boolean
PreferenceKeys ==
    {"defaultCity", "preferredFuelType", "emailNotifications",
     "pushNotifications"}

BooleanKeys == {"emailNotifications", "pushNotifications"}

\* express-validator's trim() on the strings the model sends
Trim(str) ==
    CASE str = " Dana " -> "Dana"
      [] str = "  " -> ""
      [] OTHER -> str

\* the body of PUT /api/users/profile as the validators leave it: the three
\* strings they trim are trimmed, defaultCity too
Sanitized(body) ==
    [body EXCEPT !.firstName = Trim(@), !.lastName = Trim(@),
                 !.phone = Trim(@), !.preferences.defaultCity = Trim(@)]

\* { ...user.preferences, ...req.body.preferences } as the schema casts it:
\* a key of the body wins, a key the body lacks ("undefined") stays as read
PutProfileNoSpread(preferences, supplied) ==
    [k \in PreferenceKeys |->
        IF supplied[k] = "undefined" THEN Preferences(TRUE)[k]
        ELSE IF k \in BooleanKeys THEN CastBoolean(supplied[k])
        ELSE supplied[k]]

SpreadPreferences(preferences, supplied) ==
    [k \in PreferenceKeys |->
        IF supplied[k] = "undefined" THEN preferences[k]
        ELSE IF k \in BooleanKeys THEN CastBoolean(supplied[k])
        ELSE supplied[k]]

\* PUT /api/users/profile from the allowedUpdates loop on.  A field of the
\* body that is "undefined" is not in the body; a body without preferences
\* and one whose preferences have no key of the schema both leave every key
\* as read.  save() sends firstName, lastName and phone where they changed
\* and preferences whole, as read and merged
PutProfileOutcome(stored, doc, p) ==
    LET body == Sanitized(p.body)
        set(field) == body[field] # "undefined" /\ body[field] # doc[field]
        supplied == \E k \in PreferenceKeys :
                        body.preferences[k] # "undefined"
    IN  Outcome(200, [stored EXCEPT
            !.firstName = IF set("firstName") THEN body.firstName ELSE @,
            !.lastName = IF set("lastName") THEN body.lastName ELSE @,
            !.phone = IF set("phone") THEN body.phone ELSE @,
            !.preferences =
                IF supplied
                THEN SpreadPreferences(doc.preferences, body.preferences)
                ELSE @])

\* a handler of the users API from its User.findById on
UserOutcome(op, stored, doc, p, id) ==
    CASE op = "POST /alerts" -> PostAlertOutcome(stored, doc, p, id)
      [] op = "PUT /alerts/:alertId" -> PutAlertOutcome(stored, doc, p)
      [] op = "DELETE /alerts/:alertId" -> DeleteAlertOutcome(stored, doc, p)
      [] op = "POST /favorites" -> PostFavoriteOutcome(stored, doc, p)
      [] op = "DELETE /favorites/:stationId"
            -> DeleteFavoriteOutcome(stored, doc, p)
      [] op = "PUT /profile" -> PutProfileOutcome(stored, doc, p)

\* the validators of PUT /api/users/profile: a firstName or lastName in the
\* body is not empty once trimmed, a preferredFuelType is one of the three
\* fuel types, emailNotifications and pushNotifications spell a Boolean
ProfileValid(body) ==
    /\ body.firstName # ""
    /\ body.lastName # ""
    /\ body.preferences.preferredFuelType \in Fuel \cup {"undefined"}
    /\ \A k \in BooleanKeys :
          body.preferences[k] \in {"undefined", "true", "false"}

\* what a request of the users API is answered before its User.findById: 400
\* by the validators, 404 for a station that is not found, 0 if it goes on
Rejected(op, p) ==
    IF op \in {"POST /alerts", "POST /favorites"}
    THEN IF \/ ~IsMongoId(p.stationId)
            \/ (op = "POST /alerts" /\ p.fuelType \notin Fuel)
         THEN 400
         ELSE IF ~StationFound(p.stationId) THEN 404 ELSE 0
    ELSE IF op = "PUT /profile"
    THEN IF ProfileValid(Sanitized(p.body)) THEN 0 ELSE 400
    ELSE 0

\* a request to the users API that completes before anything else happens;
\* ok: its store operations succeed
UserRequest(op, p, ok) ==
    LET out == UserOutcome(op, users[p.user], users[p.user], p, nextAlertId)
    IN  /\ out.user.__v <= MaxVersion
        /\ IF Rejected(op, p) = 400
           THEN Respond(op, p, 400) /\ UNCHANGED <<users, nextAlertId>>
           ELSE IF ~ok
           THEN Respond(op, p, 500) /\ UNCHANGED <<users, nextAlertId>>
           ELSE IF Rejected(op, p) # 0
           THEN Respond(op, p, Rejected(op, p))
                /\ UNCHANGED <<users, nextAlertId>>
           ELSE /\ users' = [users EXCEPT ![p.user] = out.user]
                /\ nextAlertId' = IF out.status = 201
                                  THEN nextAlertId + 1 ELSE nextAlertId
                /\ Respond(op, p, out.status)
        /\ UNCHANGED <<stations, now, runVars, req, requests, clientVars>>

\* POST /api/users/alerts
PostAlert(u, stationId, fuelType, targetPrice, ok) ==
    /\ nextAlertId <= MaxAlertId
    /\ UserRequest("POST /alerts",
                   [user |-> u, stationId |-> stationId,
                    fuelType |-> fuelType, targetPrice |-> targetPrice,
                    storeOk |-> ok], ok)

\* PUT /api/users/alerts/:alertId
PutAlert(u, alertId, targetPrice, isActive, ok) ==
    UserRequest("PUT /alerts/:alertId",
                [user |-> u, alertId |-> alertId, targetPrice |-> targetPrice,
                 isActive |-> isActive, storeOk |-> ok], ok)

\* DELETE /api/users/alerts/:alertId
DeleteAlert(u, alertId, ok) ==
    UserRequest("DELETE /alerts/:alertId",
                [user |-> u, alertId |-> alertId, storeOk |-> ok], ok)

\* POST /api/users/favorites
PostFavorite(u, stationId, ok) ==
    UserRequest("POST /favorites",
                [user |-> u, stationId |-> stationId, storeOk |-> ok], ok)

\* DELETE /api/users/favorites/:stationId
DeleteFavorite(u, stationId, ok) ==
    UserRequest("DELETE /favorites/:stationId",
                [user |-> u, stationId |-> stationId, storeOk |-> ok], ok)

\* PUT /api/users/profile
PutProfile(u, body, ok) ==
    UserRequest("PUT /profile", [user |-> u, body |-> body, storeOk |-> ok],
                ok)

TargetParams == {620}

NewTargetParams == {Undefined, 650}

ActiveParams == {"undefined", "false"}

\* a body of PUT /api/users/profile with no field
NoBody ==
    [firstName |-> "undefined", lastName |-> "undefined",
     phone |-> "undefined", email |-> "undefined", password |-> "undefined",
     favoriteStations |-> "undefined", priceAlerts |-> "undefined",
     preferences |-> [k \in PreferenceKeys |-> "undefined"]]

\* a body with preferences.emailNotifications only
NotifyBody(n) == [NoBody EXCEPT !.preferences.emailNotifications = n]

\* the bodies the model sends: an empty one; the three names and
\* emailNotifications with the four fields outside the allow-list; two other
\* preferences with an email; a firstName of blanks; a fuel type that is none
ProfileBodies ==
    {NoBody,
     [NotifyBody("false") EXCEPT
                    !.firstName = " Dana ", !.lastName = "Levi",
                    !.phone = "050", !.email = "eve@example.com",
                    !.password = "secret1", !.favoriteStations = "[]",
                    !.priceAlerts = "[]"],
     [NoBody EXCEPT !.email = "eve@example.com",
                    !.preferences.pushNotifications = "true",
                    !.preferences.preferredFuelType = "diesel"],
     [NoBody EXCEPT !.firstName = "  "],
     [NoBody EXCEPT !.preferences.preferredFuelType = "lpg"]}

UsersApi ==
    \/ \E u \in Requesters, s \in StationIdParams, f \in FuelTypeParams,
          t \in TargetParams, ok \in BOOLEAN : PostAlert(u, s, f, t, ok)
    \/ \E u \in Requesters, a \in AlertIdParams, t \in NewTargetParams,
          act \in ActiveParams, ok \in BOOLEAN : PutAlert(u, a, t, act, ok)
    \/ \E u \in Requesters, a \in AlertIdParams, ok \in BOOLEAN :
          DeleteAlert(u, a, ok)
    \/ \E u \in Requesters, s \in StationIdParams, ok \in BOOLEAN :
          PostFavorite(u, s, ok)
    \/ \E u \in Requesters, s \in StationIdParams, ok \in BOOLEAN :
          DeleteFavorite(u, s, ok)
    \/ \E u \in Requesters, b \in ProfileBodies, ok \in BOOLEAN :
          PutProfile(u, b, ok)

\* requests to the users API, one completing before the next starts
SpecApi == Init /\ [][UsersApi]_vars

----------------------------------------------------------------------------
(* The stations API: PUT /api/stations/:id of server/routes/stations.js *)

\* the fuelTypes of a request body: per fuel type the price supplied, or
\* Undefined for a fuel type the body does not have
Body(g95, g98, d) == [gasoline95 |-> g95, gasoline98 |-> g98, diesel |-> d]

PutStationDocClamped(doc, fuelTypes, t) ==
    [doc EXCEPT
        !.fuelTypes = [f \in Fuel |->
            IF Truthy(fuelTypes[f])
            THEN Price(Max(Floor[f], fuelTypes[f]), t) ELSE doc.fuelTypes[f]],
        !.lastScraped = t]

\* the station document after the handler's forEach and its stamp of
\* lastScraped, before save()
PutStationDoc(doc, fuelTypes, t) ==
    [doc EXCEPT
        !.fuelTypes = [f \in Fuel |->
            IF Truthy(fuelTypes[f])
            THEN Price(fuelTypes[f], t) ELSE doc.fuelTypes[f]],
        !.lastScraped = t]

\* what PUT /api/stations/:id is answered before its save(): 500 for an id
\* findById cannot cast, 404 for a station that is not found, 0 if it goes on
StationRejected(p) ==
    IF ~IsMongoId(p.id) THEN 500
    ELSE IF ~StationFound(p.id) THEN 404 ELSE 0

\* PUT /api/stations/:id, completing before anything else happens; ok: its
\* store operations succeed
PutStation(id, fuelTypes, ok) ==
    LET p == [id |-> id, fuelTypes |-> fuelTypes, storeOk |-> ok]
        s == CastObjectId(id)
    IN  /\ IF ~ok
           THEN Respond("PUT /stations/:id", p, 500) /\ UNCHANGED stations
           ELSE IF StationRejected(p) # 0
           THEN Respond("PUT /stations/:id", p, StationRejected(p))
                /\ UNCHANGED stations
           ELSE /\ stations' = [stations EXCEPT ![s] =
                       SaveStation(@, @, PutStationDoc(@, fuelTypes, now))]
                /\ Respond("PUT /stations/:id", p, 200)
        /\ UNCHANGED <<users, now, runVars, nextAlertId, req, requests, clientVars>>

\* the ids the model sends: stations 1 and 2, an id no station has, and a
\* string that is no id
StationPathParams ==
    {Hex(1, "lower"), Hex(2, "lower"), Hex(4, "lower"), Hex(0, "malformed")}

\* the bodies the model sends: a diesel price under the floor, two gasoline
\* prices of which one is zero, and no price at all
BodyParams ==
    {Body(Undefined, Undefined, 550), Body(610, 0, Undefined),
     Body(Undefined, Undefined, Undefined)}

StationsApi ==
    \E id \in StationPathParams, b \in BodyParams, ok \in BOOLEAN :
        PutStation(id, b, ok)

\* requests to the stations API, one completing before the next starts,
\* while time passes
StationsApiNext ==
    \/ StationsApi
    \/ Advance

SpecStationsApi == Init /\ [][StationsApiNext]_vars

----------------------------------------------------------------------------
(* Requests that race with a run: a handler is followed to the await of   *)
(* its save(), and its save() arrives later                                *)

MaxRequests == 1     \* requests received while runs are in flight
MaxRaceTicks == 1    \* cron firings explored against those requests

\* a request to the users API arrives; the handler is answered at once, or
\* reads the user and goes up to await user.save()
BeginUserRequest(op, p) ==
    /\ req = NoRequest
    /\ requests < MaxRequests
    /\ requests' = requests + 1
    /\ IF Rejected(op, p) # 0
       THEN Respond(op, p, Rejected(op, p)) /\ UNCHANGED req
       ELSE /\ req' = [op |-> op, params |-> p, doc |-> users[p.user]]
            /\ UNCHANGED response
    /\ UNCHANGED <<stations, users, now, runVars, nextAlertId, clientVars>>

\* PUT /api/stations/:id arrives; the handler is answered at once, or reads
\* the station, changes it and goes up to await station.save()
BeginStationRequest(p) ==
    /\ req = NoRequest
    /\ requests < MaxRequests
    /\ requests' = requests + 1
    /\ IF StationRejected(p) # 0
       THEN Respond("PUT /stations/:id", p, StationRejected(p))
            /\ UNCHANGED req
       ELSE /\ req' = [op |-> "PUT /stations/:id", params |-> p,
                       doc |-> stations[CastObjectId(p.id)],
                       changed |-> PutStationDoc(stations[CastObjectId(p.id)],
                                                 p.fuelTypes, now)]
            /\ UNCHANGED response
    /\ UNCHANGED <<stations, users, now, runVars, nextAlertId, clientVars>>

\* the save() of the handler in flight returns or throws, and the handler
\* answers
EndRequest(ok) ==
    /\ req # NoRequest
    /\ req' = NoRequest
    /\ IF ~ok
       THEN /\ Respond(req.op, req.params, 500)
            /\ UNCHANGED <<stations, users, nextAlertId>>
       ELSE IF req.op = "PUT /stations/:id"
       THEN /\ stations' = [stations EXCEPT ![req.doc._id] =
                   SaveStation(@, req.doc, req.changed)]
            /\ Respond(req.op, req.params, 200)
            /\ UNCHANGED <<users, nextAlertId>>
       ELSE LET u == req.params.user
                out == UserOutcome(req.op, users[u], req.doc, req.params,
                                   nextAlertId)
            IN  /\ users' = [users EXCEPT ![u] = out.user]
                /\ nextAlertId' = IF out.status = 201
                                  THEN nextAlertId + 1 ELSE nextAlertId
                /\ Respond(req.op, req.params, out.status)
                /\ UNCHANGED stations
    /\ UNCHANGED <<now, runVars, requests, clientVars>>

\* a cron trigger fires while requests arrive
RaceTick(r) ==
    /\ ticks < MaxRaceTicks
    /\ Tick(r)

\* the requests that race with the run
RaceRequests ==
    \/ BeginUserRequest("POST /alerts",
           [user |-> 1, stationId |-> Hex(1, "lower"),
            fuelType |-> "gasoline95", targetPrice |-> 620])
    \/ \E t \in NewTargetParams, act \in ActiveParams :
           BeginUserRequest("PUT /alerts/:alertId",
               [user |-> 1, alertId |-> Hex(1, "lower"),
                targetPrice |-> t, isActive |-> act])
    \/ \E a \in {Hex(1, "lower"), Hex(1, "upper"), Hex(4, "lower")} :
           BeginUserRequest("DELETE /alerts/:alertId",
               [user |-> 1, alertId |-> a])
    \/ BeginUserRequest("POST /favorites",
           [user |-> 1, stationId |-> Hex(1, "lower")])
    \/ BeginUserRequest("DELETE /favorites/:stationId",
           [user |-> 1, stationId |-> Hex(1, "lower")])
    \/ BeginUserRequest("PUT /profile",
           [user |-> 1, body |-> NotifyBody("false")])
    \/ BeginStationRequest(
           [id |-> Hex(1, "lower"), fuelTypes |-> Body(Undefined, Undefined, 550)])

RaceNext ==
    \/ \E r \in Runs : RaceTick(r)
    \/ \E r \in Runs, ok \in BOOLEAN : FindStations(r, ok)
    \/ \E r \in Runs, d \in Variations, ok \in BOOLEAN : UpdateStation(r, d, ok)
    \/ \E r \in Runs, ok \in BOOLEAN : FindUsers(r, ok)
    \/ \E r \in Runs : EvaluateUser(r)
    \/ \E r \in Runs, ok \in BOOLEAN : SendMail(r, ok)
    \/ \E r \in Runs, ok \in BOOLEAN : WriteUser(r, ok)
    \/ \E r \in Runs : FinishAlerts(r)
    \/ \E r \in Runs : Return(r)
    \/ RaceRequests
    \/ \E ok \in BOOLEAN : EndRequest(ok)

\* one run of the pipeline and one request to the API, interleaved at their
\* awaits
SpecRace == Init /\ [][RaceNext]_vars

----------------------------------------------------------------------------
(* The two cron schedules: cron.schedule('0 */2 * * *', ...) and            *)
(* cron.schedule('*/30 8-20 * * *', ...).  Here now is read as local time:  *)
(* 0 is a midnight.                                                         *)

MaxCronSteps == 145  \* clock steps explored: a day and a step

\* the clock of the schedule model moves in steps of ten minutes
CronStepMs == 10 * 60 * 1000

\* a field of a cron expression: the values lo, lo + step, ... up to hi
Field(lo, hi, step) == [lo |-> lo, hi |-> hi, step |-> step]

FieldMatches(field, v) ==
    /\ v \in field.lo..field.hi
    /\ (v - field.lo) % field.step = 0

\* the minute and hour fields of the two expressions: '0' and '*/2',
\* '*/30' and '8-20' (day, month and weekday are '*')
Schedule ==
    [every2h |-> [minute |-> Field(0, 0, 1), hour |-> Field(0, 23, 2)],
     every30m |-> [minute |-> Field(0, 59, 30), hour |-> Field(8, 20, 1)]]

HourOf(t) == (t \div (60 * 60 * 1000)) % 24

MinuteOf(t) == (t \div (60 * 1000)) % 60

\* the expression of trigger r matches the time t
CronMatches(r, t) ==
    /\ FieldMatches(Schedule[r].minute, MinuteOf(t))
    /\ FieldMatches(Schedule[r].hour, HourOf(t))

\* the clock reaches the next ten minutes, and every trigger whose
\* expression matches calls scrapeFuelPrices, which goes up to await
\* Station.find (the runs of ten minutes before have returned)
CronStep ==
    /\ now < TimeStep + MaxCronSteps * CronStepMs
    /\ \A r \in Runs : pc[r] = "idle"
    /\ now' = now + CronStepMs
    /\ pc' = [r \in Runs |->
                 IF CronMatches(r, now') THEN "findStations" ELSE pc[r]]
    /\ passLog' = [r \in Runs |->
                 IF CronMatches(r, now')
                 THEN [FreshLog EXCEPT !.started = TRUE] ELSE passLog[r]]
    /\ ticks' = ticks + Cardinality({r \in Runs : CronMatches(r, now')})
    /\ UNCHANGED <<stations, users, stationDocs, si, userDocs, ui,
                   triggeredAlerts, notifLog, apiVars,
                   clientVars>>

\* the schedules over a day, from 13:00 on; the store is down, so that a
\* run ends at its first await and leaves the data as it is (what a run
\* does to the data is the matter of Spec)
CronNext ==
    \/ CronStep
    \/ \E r \in Runs : FindStations(r, FALSE)
    \/ \E r \in Runs : Return(r)

SpecCron == Init /\ [][CronNext]_vars

\* trigger r starts a run in this step
RunStarts(r) == pc[r] = "idle" /\ pc'[r] = "findStations"

\* minutes since local midnight
MinuteOfDay(t) == HourOf(t) * 60 + MinuteOf(t)

----------------------------------------------------------------------------
(* The client: calls of the RateLimiter over time *)

MaxLimiterSteps == 4     \* clock steps of the limiter's specification
MaxLimiterCalls == 4     \* isAllowed calls of the limiter's specification

\* the clock step of the client: two and a half minutes
ClientStepMs == 150 * 1000

\* the keys isAllowed is called with
LimiterKeys == {"search", "login"}

\* everything but the clock and the client
serverVars == <<stations, users, ticks, pc, stationDocs, si, userDocs, ui,
                triggeredAlerts, passLog, notifLog, apiVars>>

LimiterClock ==
    /\ now < TimeStep + MaxLimiterSteps * ClientStepMs
    /\ now' = now + ClientStepMs
    /\ UNCHANGED <<serverVars, clientVars>>

\* a call of isAllowed(key)
CallIsAllowed(key) ==
    /\ Len(limiter.calls) < MaxLimiterCalls
    /\ LET out == IsAllowed(limiter.this, key, now)
       IN  limiter' = [limiter EXCEPT
               !.this = out.this,
               !.calls = Append(@, [t |-> now, key |-> key,
                                    returned |-> out.returned])]
    /\ UNCHANGED <<serverVars, now, cache, live>>

\* a call of getRemainingRequests()
CallGetRemainingRequests ==
    /\ LET out == GetRemainingRequests(limiter.this, now)
       IN  limiter' = [limiter EXCEPT
               !.this = out.this,
               !.remaining = <<[t |-> now, after |-> Len(limiter.calls),
                                returned |-> out.returned]>>]
    /\ UNCHANGED <<serverVars, now, cache, live>>

LimiterNext ==
    \/ LimiterClock
    \/ \E key \in LimiterKeys : CallIsAllowed(key)
    \/ CallGetRemainingRequests

SpecLimiter == Init /\ [][LimiterNext]_vars

\* the calls of isAllowed that returned true at a time from lo on and
\* before hi
AllowedIn(lo, hi) ==
    {i \in DOMAIN limiter.calls :
        /\ limiter.calls[i].returned
        /\ lo <= limiter.calls[i].t
        /\ limiter.calls[i].t < hi}

\* C24: in every window of LimiterWindowMs that starts with an allowed call,
\* at most LimiterRequests calls of isAllowed returned true, and the last
\* getRemainingRequests returned LimiterRequests minus the calls allowed in
\* the window that ended when it was called
C24_AtMostNPerWindow ==
    /\ \A i \in DOMAIN limiter.calls :
          Cardinality(AllowedIn(limiter.calls[i].t,
                                limiter.calls[i].t + LimiterWindowMs))
              <= LimiterRequests
    /\ \A j \in DOMAIN limiter.remaining :
          LET got == limiter.remaining[j]
              window == {i \in AllowedIn(got.t - LimiterWindowMs, got.t + 1) :
                            i <= got.after}
          IN  /\ ~got.returned.nan
              /\ got.returned.value = LimiterRequests - Cardinality(window)

----------------------------------------------------------------------------
(* The client: a call of fetchWithRetry, alone or from a getter *)

\* what fetch() settles with: it rejects (no network), it rejects because
\* the timeout aborted it, it resolves with a status that is not ok, or it
\* resolves with an ok status
FetchOutcomes == {"TypeError", "AbortError", "HTTP 500", "ok"}

\* what response.json() settles with: a body, a SyntaxError ("invalid"), or
\* nothing, when the rest of the body never arrives ("never"; the timeout
\* was cleared when fetch resolved)
JsonOutcomes == Bodies \cup {"invalid", "never"}

\* the function called settles: fetchWithRetry with what it has, a getter
\* with what it makes of that
Settle(call, settled, t) ==
    [call EXCEPT !.pc = "done",
                 !.settled = IF call.fn = "fetchWithRetry" THEN settled
                             ELSE GetterResult(call.fn, settled, t)]

\* the catch block of fetchWithRetry
Caught(call, error, t) ==
    IF call.retries > 0
    THEN [call EXCEPT !.pc = "backoff", !.errors = Append(@, error)]
    ELSE Settle([call EXCEPT !.errors = Append(@, error)],
                RejectedWith(error), t)

\* fetchWithRetry(url, options, retries) is called and goes up to await
\* fetch
CallFetchWithRetry(retries) ==
    /\ live.pc = "idle"
    /\ live' = [live EXCEPT !.pc = "fetch", !.fn = "fetchWithRetry",
                            !.retries = retries, !.asked = retries,
                            !.attempts = 1]
    /\ UNCHANGED <<serverVars, now, limiter, cache>>

\* a getter is called and goes up to the await fetch of its fetchWithRetry
CallGetter(g) ==
    /\ live.pc = "idle"
    /\ live' = [live EXCEPT !.pc = "fetch", !.fn = g,
                            !.retries = RetryAttempts,
                            !.asked = RetryAttempts, !.attempts = 1]
    /\ UNCHANGED <<serverVars, now, limiter, cache>>

\* await fetch settles; with an ok response the function goes up to await
\* response.json()
FetchSettles(outcome, body) ==
    /\ live.pc = "fetch"
    /\ live' = IF outcome = "ok"
               THEN [live EXCEPT !.pc = "json", !.body = body]
               ELSE Caught(live, outcome, now)
    /\ UNCHANGED <<serverVars, now, limiter, cache>>

\* await response.json() settles
BodySettles ==
    /\ live.pc = "json"
    /\ live.body # "never"
    /\ live' = IF live.body = "invalid"
               THEN Caught(live, "SyntaxError", now)
               ELSE Settle(live, Resolved(live.body), now)
    /\ UNCHANGED <<serverVars, now, limiter, cache>>

\* the second of setTimeout(resolve, 1000) is over:
\* fetchWithRetry(url, options, retries - 1) goes up to await fetch
TimerFires ==
    /\ live.pc = "backoff"
    /\ live' = [live EXCEPT !.pc = "fetch", !.retries = @ - 1,
                            !.attempts = @ + 1]
    /\ UNCHANGED <<serverVars, now, limiter, cache>>

\* the caller has what the call settled with
Forget ==
    /\ live.pc = "done"
    /\ live' = InitLive
    /\ UNCHANGED <<serverVars, now, limiter, cache>>

LiveNext ==
    \/ \E retries \in 0..MaxRetries : CallFetchWithRetry(retries)
    \/ \E g \in Getters : CallGetter(g)
    \/ \E outcome \in FetchOutcomes, body \in JsonOutcomes :
          FetchSettles(outcome, body)
    \/ BodySettles
    \/ TimerFires
    \/ Forget

SpecLive == Init /\ [][LiveNext]_vars

\* every await that can settle does: fetch by its timeout at the latest,
\* response.json() when its body arrives, the timer after its second
SpecLiveFair ==
    /\ SpecLive
    /\ WF_vars(\E outcome \in FetchOutcomes, body \in JsonOutcomes :
                  FetchSettles(outcome, body))
    /\ WF_vars(BodySettles)
    /\ WF_vars(TimerFires)

\* a call of fetchWithRetry makes at most retries + 1 attempts; it resolves
\* with the body of the first attempt that did not fail, and rejects with
\* the last error once retries + 1 attempts have failed
RetryBound ==
    live.fn = "fetchWithRetry" =>
        /\ live.attempts <= live.asked + 1
        /\ Len(live.errors) <= live.attempts
        /\ (live.pc = "done" /\ live.settled.kind = "resolved") =>
               /\ Len(live.errors) = live.attempts - 1
               /\ live.settled.value = live.body
        /\ (live.pc = "done" /\ live.settled.kind = "rejected") =>
               /\ live.attempts = live.asked + 1
               /\ Len(live.errors) = live.attempts
               /\ live.settled.value = live.errors[live.attempts]

\* C25: a call of fetchWithRetry keeps to its bound of retries + 1 attempts,
\* resolves with the body of the first attempt that succeeds, rejects with
\* the last error only after retries + 1 failures, and always settles
C25_BoundedAndTerminates ==
    /\ []RetryBound
    /\ (live.fn = "fetchWithRetry" /\ live.pc = "fetch") ~> (live.pc = "done")

\* C26: a getter that has settled has not failed to its caller; if every
\* fetch attempt failed it returned success = false with its fallback data,
\* stamped with the time where the getter stamps; and if it returned
\* success = true, its last attempt did not fail
C26_FallbackOnFailure ==
    (live.fn \in Getters /\ live.pc = "done") =>
        /\ live.settled.kind = "resolved"
        /\ Len(live.errors) = live.attempts =>
               /\ live.attempts = RetryAttempts + 1
               /\ ~live.settled.value.success
               /\ live.settled.value.data
                      = Stamped(live.fn, Fallback[live.fn], now)
        /\ live.settled.value.success =>
               /\ Len(live.errors) = live.attempts - 1
               /\ live.body \in Bodies

\* getIsraelFuelPrices has returned the fallback prices, without success,
\* after four attempts that failed in four ways
C26_FellBack ==
    /\ live.fn = "getIsraelFuelPrices"
    /\ live.pc = "done"
    /\ live.errors = <<"TypeError", "HTTP 500", "SyntaxError", "AbortError">>
    /\ live.settled.kind = "resolved"
    /\ ~live.settled.value.success
    /\ live.settled.value.data.gasoline95 = 685
    /\ live.settled.value.data.diesel = 641
    /\ live.settled.value.data.lastUpdated = now

----------------------------------------------------------------------------
(* The client: calls of liveDataCache over time *)

MaxCacheSteps == 4       \* clock steps of the cache's specification

CacheClock ==
    /\ now < TimeStep + MaxCacheSteps * ClientStepMs
    /\ now' = now + ClientStepMs
    /\ UNCHANGED <<serverVars, clientVars>>

\* liveDataCache.set(key, data)
CallSet(key, data) ==
    /\ cache' = [cache EXCEPT
           !.this = CacheSet(@, key, data, now),
           !.lastSet[key] = [data |-> data, at |-> now]]
    /\ UNCHANGED <<serverVars, now, limiter, live>>

\* liveDataCache.get(key)
CallGet(key) ==
    /\ LET out == CacheGet(cache.this, key, now)
       IN  cache' = [cache EXCEPT
               !.this = out.this,
               !.got = <<[key |-> key, t |-> now,
                          returned |-> out.returned]>>]
    /\ UNCHANGED <<serverVars, now, limiter, live>>

\* liveDataCache.clear()
CallClear ==
    /\ cache' = [cache EXCEPT
           !.this = CacheClear(@),
           !.lastSet = [k \in CacheKeys |-> NeverSet]]
    /\ UNCHANGED <<serverVars, now, limiter, live>>

CacheNext ==
    \/ CacheClock
    \/ \E key \in CacheKeys, data \in CacheData : CallSet(key, data)
    \/ \E key \in CacheKeys : CallGet(key)
    \/ CallClear

SpecCache == Init /\ [][CacheNext]_vars

\* a get(key) is made in this step
Got(key) ==
    /\ cache' # cache
    /\ cache'.lastSet = cache.lastSet
    /\ Len(cache'.got) = 1
    /\ cache'.got[1].key = key
    /\ cache'.got[1].t = now

\* C27: a get(key) returns the data of the most recent set(key) since the
\* last clear if that set was made at most CacheTimeout before, and null
\* otherwise; if it finds an entry older than that, the entry is gone after
\* it; and what is not null was set at most CacheTimeout before
C27_FreshOrNull ==
    [][\A key \in CacheKeys :
          Got(key) =>
              LET last == cache.lastSet[key]
                  fresh == last.at # Undefined /\ now - last.at <= CacheTimeout
                  returned == cache'.got[1].returned
              IN  /\ returned = IF fresh THEN last.data ELSE Null
                  /\ returned # Null => now - last.at <= CacheTimeout
                  /\ ( /\ key \in DOMAIN cache.this.cache.entries
                       /\ now - cache.this.cache.entries[key].timestamp
                              > CacheTimeout )
                     => key \notin DOMAIN cache'.this.cache.entries]_vars

\* currencyRates was set, returned by a get five minutes later, and found
\* expired by the last get, seven and a half minutes after the set: that
\* get returned null and the entry is gone, while israelFuelPrices, set
\* later, is still there
C27_ExpiredAndGone ==
    /\ cache.lastSet["currencyRates"] = [data |-> "first", at |-> TimeStep]
    /\ now = TimeStep + 3 * ClientStepMs
    /\ cache.got = <<[key |-> "currencyRates", t |-> now, returned |-> Null]>>
    /\ DOMAIN cache.this.cache.entries = {"israelFuelPrices"}
    /\ cache.lastSet["israelFuelPrices"].at = TimeStep + 2 * ClientStepMs

----------------------------------------------------------------------------
(* Steps of a run, as seen from outside *)

\* run r's save of a station succeeds in this step
StationSaved(r) ==
    /\ pc[r] = "stations"
    /\ passLog'[r].stationsSaved # passLog[r].stationsSaved

\* run r evaluates the alerts of a user in this step
UserEvaluated(r) ==
    /\ pc[r] = "users"
    /\ passLog'[r].usersEvaluated # passLog[r].usersEvaluated

\* run r's save of a user succeeds in this step
UserSaved(r) ==
    /\ pc[r] = "saveUser"
    /\ passLog'[r].usersSaved # passLog[r].usersSaved

EntriesFor(batch, a) == {k \in DOMAIN batch : batch[k].alertId = a}

----------------------------------------------------------------------------
(* The Price Mutator *)

\* C1: no step of a pass takes a stored price that is at or above its
\* fuel type's floor below that floor; with the Price Mutator as the only
\* writer, a price at or above its floor therefore stays so over any number
\* of passes
C1_FloorKept ==
    [][\A s \in StationIds, f \in Fuel :
          stations[s].fuelTypes[f].price >= Floor[f]
              => stations'[s].fuelTypes[f].price >= Floor[f]]_vars

\* a pass has clamped gasoline95 of station 1 (605, drawn down by 10) to
\* its floor
C1_Clamped ==
    /\ stations[1].fuelTypes["gasoline95"].price = Floor["gasoline95"]
    /\ stations[1].fuelTypes["gasoline95"].lastUpdated > 0

\* C2: whenever a pass stores a station, with d the draw made for it, every
\* fuel type the station has a price for is stored as max(floor, price
\* read + d)
C2_EveryPriceClamped ==
    [][\A r \in Runs : StationSaved(r) =>
          LET read == stationDocs[r][si[r]]
              d == passLog'[r].draw
          IN  \A f \in Fuel :
                  read.fuelTypes[f].price # Undefined =>
                      stations'[read._id].fuelTypes[f].price
                          = Max(Floor[f], read.fuelTypes[f].price + d)]_vars

\* C23: whenever a pass stores a station for which the draw d takes no price
\* under its floor, every price of the station is stored as the price read
\* plus d: the three prices move by the same amount
C23_SharedDraw ==
    [][\A r \in Runs : StationSaved(r) =>
          LET read == stationDocs[r][si[r]]
              d == passLog'[r].draw
          IN  (\A f \in Fuel :
                   read.fuelTypes[f].price # Undefined =>
                       read.fuelTypes[f].price + d >= Floor[f])
              => \A f \in Fuel :
                     read.fuelTypes[f].price # Undefined =>
                         stations'[read._id].fuelTypes[f].price
                             = read.fuelTypes[f].price + d]_vars

\* in the first pass station 1 was stored with a draw of +5, all three prices
\* five higher and none clamped, and station 2 after it with a draw of -10
C23_TwoDraws ==
    \E r \in Runs :
        /\ pc[r] = "findUsers"
        /\ now = TimeStep
        /\ passLog[r].stationsSaved = {1, 2}
        /\ passLog[r].draw = -10
        /\ stations[1].lastScraped = now
        /\ stations[1].fuelTypes["gasoline95"].price = 610
        /\ stations[1].fuelTypes["gasoline98"].price = 720
        /\ stations[1].fuelTypes["diesel"].price = 645
        /\ stations[2].lastScraped = now

\* C12 as stated: a pass saves every station, and its save of a station
\* leaves every fuel type's lastUpdated and the station's lastScraped
\* strictly greater than the values the pass read
C12_AllStamped ==
    [][\A r \in Runs :
          /\ StationSaved(r) =>
                LET read == stationDocs[r][si[r]]
                IN  /\ stations'[read._id].lastScraped > read.lastScraped
                    /\ \A f \in Fuel :
                          stations'[read._id].fuelTypes[f].lastUpdated
                              > read.fuelTypes[f].lastUpdated
          /\ (pc[r] = "stations" /\ pc'[r] = "findUsers") =>
                passLog'[r].stationsSaved = StationIds]_vars

\* C12: a pass's save of a station leaves lastScraped, and the lastUpdated
\* of every fuel type whose price the pass read as present and not zero, at
\* the pass time, strictly greater than the value read whenever that value
\* is of an earlier time; the lastUpdated of a fuel type with a zero or
\* missing price, and every station the pass does not save, stay as stored
C12_StampedAtPassTime ==
    [][\A r \in Runs : StationSaved(r) =>
          LET read == stationDocs[r][si[r]]
          IN  /\ stations'[read._id].lastScraped = now
              /\ read.lastScraped < now
                     => stations'[read._id].lastScraped > read.lastScraped
              /\ \A f \in Fuel :
                    IF Truthy(read.fuelTypes[f].price)
                    THEN /\ stations'[read._id].fuelTypes[f].lastUpdated = now
                         /\ read.fuelTypes[f].lastUpdated < now
                              => stations'[read._id].fuelTypes[f].lastUpdated
                                     > read.fuelTypes[f].lastUpdated
                    ELSE stations'[read._id].fuelTypes[f].lastUpdated
                             = stations[read._id].fuelTypes[f].lastUpdated
              /\ \A s \in StationIds \ {read._id} :
                    stations'[s] = stations[s]]_vars

\* a second pass, one TimeStep after the first, has stamped station 1 and
\* not yet station 2
C12_StampedLater ==
    \E r \in Runs :
        /\ pc[r] = "stations"
        /\ 1 \in passLog[r].stationsSaved
        /\ now = 2 * TimeStep
        /\ stations[1].lastScraped = now
        /\ \A f \in Fuel : stations[1].fuelTypes[f].lastUpdated = now
        /\ stations[2].lastScraped = TimeStep

\* C13: every pass that returns has invoked the Alert Evaluator; the
\* invocation comes when every station the pass read has been saved, and the
\* pass saves no station after it
C13_EvaluatorOncePerPass ==
    [][\A r \in Runs :
          /\ (pc[r] # "done" /\ pc'[r] = "done")
                => passLog'[r].evaluatorCalled
          /\ (~passLog[r].evaluatorCalled /\ passLog'[r].evaluatorCalled)
                => passLog'[r].stationsSaved = passLog'[r].stationsRead
          /\ (passLog[r].evaluatorCalled /\ passLog'[r].started)
                => /\ passLog'[r].evaluatorCalled
                   /\ passLog'[r].stationsSaved = passLog[r].stationsSaved]_vars

\* C18: a run's save of a station stores, for every fuel type whose price
\* the run changed, the price the run computed from the price it read,
\* whatever the store holds by then (the last writer wins), and leaves the
\* stored price of every other fuel type
C18_LastWriterWins ==
    [][\A r \in Runs : StationSaved(r) =>
          LET read == stationDocs[r][si[r]]
              d == passLog'[r].draw
          IN  \A f \in Fuel :
                LET new == MutatePrice(f, read.fuelTypes[f].price, d)
                IN  stations'[read._id].fuelTypes[f].price
                        = IF new # read.fuelTypes[f].price
                          THEN new
                          ELSE stations[read._id].fuelTypes[f].price]_vars

\* both runs read gasoline98 of station 1 at 715; one drew -10 and one +5,
\* both have saved the station, and the store holds 720: the -10 is lost
C18_LostUpdate ==
    /\ \A r \in Runs :
          /\ pc[r] = "stations"
          /\ si[r] = 2
          /\ stationDocs[r][1]._id = 1
          /\ stationDocs[r][1].fuelTypes["gasoline98"].price = 715
          /\ 1 \in passLog[r].stationsSaved
    /\ passLog["every2h"].draw = -10
    /\ passLog["every30m"].draw = 5
    /\ stations[1].fuelTypes["gasoline98"].price = 720
    /\ 720 # 715 - 10 + 5

----------------------------------------------------------------------------
(* The Alert Evaluator *)

\* C3: when a run evaluates a user with email notifications on, every
\* active alert whose station resolves, whose station price is one the
\* Price Mutator leaves (at or above the floor) and at or below the target,
\* and which was never triggered or was triggered more than 24 hours ago,
\* gets exactly one batch entry and lastTriggered = now, and the notifier
\* has been called once for the user; the following save stores that
\* lastTriggered
C3_AlertTriggers ==
    [][\A r \in Runs :
          /\ UserEvaluated(r) =>
                LET read == userDocs[r][ui[r]]
                IN  \A i \in DOMAIN read.priceAlerts :
                      LET alert == read.priceAlerts[i]
                      IN  ( /\ read.preferences.emailNotifications
                            /\ alert.isActive
                            /\ alert.station # NoStation
                            /\ CurrentPrice(alert) >= Floor[alert.fuelType]
                            /\ CurrentPrice(alert) <= alert.targetPrice
                            /\ \/ alert.lastTriggered = Undefined
                               \/ now - alert.lastTriggered > DayMs )
                          => /\ Cardinality(EntriesFor(triggeredAlerts'[r],
                                                       alert._id)) = 1
                             /\ userDocs'[r][ui[r]].priceAlerts[i]
                                    .lastTriggered = now
                             /\ notifLog'[alert._id]
                                    = Append(notifLog[alert._id], now)
                             /\ passLog'[r].notifierCalls[read._id] = 1
          /\ UserSaved(r) =>
                LET doc == userDocs[r][ui[r]]
                IN  \A i \in DOMAIN doc.priceAlerts :
                      EntriesFor(triggeredAlerts[r], doc.priceAlerts[i]._id)
                          # {}
                      => users'[doc._id].priceAlerts[i].lastTriggered = now]_vars

\* alert 1 (diesel of station 1, target 630) has triggered after the price
\* went from 640 to 630
C3_Triggered ==
    \E r \in Runs :
        /\ pc[r] = "saveUser"
        /\ userDocs[r][ui[r]]._id = 1
        /\ Len(triggeredAlerts[r]) = 1
        /\ triggeredAlerts[r][1].alertId = 1
        /\ triggeredAlerts[r][1].currentPrice = 630
        /\ userDocs[r][ui[r]].priceAlerts[1].lastTriggered = now

\* C4: when a run evaluates a user, an alert whose lastTriggered, as the
\* run read it, is less than 24 hours old gets no batch entry and keeps its
\* lastTriggered, whatever the station's price; the following save leaves
\* the stored alert as it is
C4_Suppressed ==
    [][\A r \in Runs :
          /\ UserEvaluated(r) =>
                LET read == userDocs[r][ui[r]]
                IN  \A i \in DOMAIN read.priceAlerts :
                      LET alert == read.priceAlerts[i]
                      IN  ( /\ alert.lastTriggered # Undefined
                            /\ now - alert.lastTriggered < DayMs )
                          => /\ EntriesFor(triggeredAlerts'[r], alert._id) = {}
                             /\ userDocs'[r][ui[r]].priceAlerts[i] = alert
                             /\ notifLog'[alert._id] = notifLog[alert._id]
          /\ UserSaved(r) =>
                LET doc == userDocs[r][ui[r]]
                IN  \A i \in DOMAIN doc.priceAlerts :
                      EntriesFor(triggeredAlerts[r], doc.priceAlerts[i]._id)
                          = {}
                      => users'[doc._id].priceAlerts[i]
                             = users[doc._id].priceAlerts[i]]_vars

\* a run has evaluated user 2 and produced nothing for alert 2, triggered
\* less than 24 hours before, although the price is at the target
C4_WasSuppressed ==
    \E r \in Runs :
        /\ 2 \in passLog[r].usersEvaluated
        /\ 2 \notin passLog[r].triggered
        /\ \E j \in DOMAIN userDocs[r] :
              /\ userDocs[r][j]._id = 2
              /\ userDocs[r][j].priceAlerts[1].lastTriggered # Undefined
              /\ now - userDocs[r][j].priceAlerts[1].lastTriggered < DayMs
              /\ CurrentPrice(userDocs[r][j].priceAlerts[1])
                     <= userDocs[r][j].priceAlerts[1].targetPrice
              /\ Truthy(CurrentPrice(userDocs[r][j].priceAlerts[1]))

\* C14: when a run evaluates a user, whom it has not notified before, the
\* batch has exactly one entry for each alert the evaluation marks as
\* triggered and none for any other; the notifier is called once if the
\* batch is not empty, and otherwise not at all, the run going on to the
\* next user; and a user record is written only by a run that has called
\* the notifier for that user with a batch that is not empty
C14_OneCallPerUser ==
    [][/\ \A r \in Runs : UserEvaluated(r) =>
             LET read == userDocs[r][ui[r]]
                 batch == triggeredAlerts'[r]
                 marked == {i \in DOMAIN read.priceAlerts :
                              userDocs'[r][ui[r]].priceAlerts[i].lastTriggered
                                  # read.priceAlerts[i].lastTriggered}
             IN  /\ Len(batch) = Cardinality(marked)
                 /\ \A i \in DOMAIN read.priceAlerts :
                       Cardinality(EntriesFor(batch, read.priceAlerts[i]._id))
                           = IF i \in marked THEN 1 ELSE 0
                 /\ passLog[r].notifierCalls[read._id] = 0
                 /\ passLog'[r].notifierCalls[read._id]
                        = IF marked # {} THEN 1 ELSE 0
                 /\ passLog'[r].batchSize[read._id] = Len(batch)
                 /\ marked = {} => /\ pc'[r] = "users"
                                   /\ ui'[r] = ui[r] + 1
                                   /\ users' = users
       /\ \A u \in UserIds : users'[u] # users[u] =>
             \E r \in Runs :
                 /\ pc[r] = "saveUser"
                 /\ userDocs[r][ui[r]]._id = u
                 /\ passLog[r].notifierCalls[u] = 1
                 /\ Len(triggeredAlerts[r]) > 0]_vars

\* a pass has returned that called the notifier once for user 1, with one
\* entry, and that evaluated user 2 without calling it or writing the user
C14_OneNotifiedOneNot ==
    \E r \in Runs :
        /\ pc[r] = "done"
        /\ passLog[r].usersEvaluated = {1, 2}
        /\ passLog[r].notifierCalls[1] = 1
        /\ passLog[r].batchSize[1] = 1
        /\ 1 \in passLog[r].usersSaved
        /\ passLog[r].notifierCalls[2] = 0
        /\ passLog[r].batchSize[2] = 0
        /\ 2 \notin passLog[r].usersSaved

\* C15: no step produces a batch entry for, or changes the stored
\* lastTriggered of, an alert that is inactive, whose stationId is the id of
\* no station, or whose owner has email notifications off; and no run holds
\* the document of a user with email notifications off
C15_SkippedAlertsUntouched ==
    [][/\ \A u \in UserIds : \A i \in DOMAIN users[u].priceAlerts :
             LET alert == users[u].priceAlerts[i]
             IN  ( \/ ~alert.isActive
                   \/ alert.stationId \notin DOMAIN stations
                   \/ ~users[u].preferences.emailNotifications )
                 => /\ notifLog'[alert._id] = notifLog[alert._id]
                    /\ \A r \in Runs :
                          EntriesFor(triggeredAlerts'[r], alert._id) = {}
                    /\ i \in DOMAIN users'[u].priceAlerts
                    /\ users'[u].priceAlerts[i] = alert
       /\ \A r \in Runs : \A j \in DOMAIN userDocs'[r] :
             /\ userDocs'[r][j].preferences.emailNotifications
             /\ \A i \in DOMAIN userDocs'[r][j].priceAlerts :
                   LET alert == userDocs'[r][j].priceAlerts[i]
                   IN  (~alert.isActive \/ alert.station = NoStation)
                       => alert.lastTriggered = Undefined]_vars

\* a pass that triggered alert 1 of user 1 has returned, having evaluated
\* users 1 and 2: it passed over the inactive alert 4, whose station's
\* price is under its target, and alert 5, whose station is gone, and it did
\* not read user 3, whose alert 6 is above its station's price
C15_PassedOver ==
    \E r \in Runs :
        /\ pc[r] = "done"
        /\ passLog[r].usersRead = {1, 2}
        /\ passLog[r].usersEvaluated = {1, 2}
        /\ 1 \in passLog[r].triggered
        /\ ~users[1].priceAlerts[2].isActive
        /\ stations[1].fuelTypes["gasoline98"].price
               <= users[1].priceAlerts[2].targetPrice
        /\ users[2].priceAlerts[3].stationId \notin DOMAIN stations
        /\ stations[1].fuelTypes["diesel"].price
               <= users[3].priceAlerts[1].targetPrice
        /\ \A a \in {4, 5, 6} : notifLog[a] = <<>>

\* C21: when a run evaluates a user, every active alert that was triggered
\* more than 24 hours before, whose station resolves and has a price, not
\* zero, at or below the target, gets a batch entry again and lastTriggered
\* = now, whether or not the price was above the target in between; the
\* notifier is called for the user
C21_TriggersAgain ==
    [][\A r \in Runs : UserEvaluated(r) =>
          LET read == userDocs[r][ui[r]]
          IN  \A i \in DOMAIN read.priceAlerts :
                LET alert == read.priceAlerts[i]
                IN  ( /\ alert.isActive
                      /\ alert.station # NoStation
                      /\ Truthy(CurrentPrice(alert))
                      /\ CurrentPrice(alert) <= alert.targetPrice
                      /\ alert.lastTriggered # Undefined
                      /\ now - alert.lastTriggered > DayMs )
                    => /\ Cardinality(EntriesFor(triggeredAlerts'[r],
                                                 alert._id)) = 1
                       /\ userDocs'[r][ui[r]].priceAlerts[i].lastTriggered
                              = now
                       /\ notifLog'[alert._id]
                              = Append(notifLog[alert._id], now)
                       /\ Len(notifLog[alert._id]) >= 1
                       /\ pc'[r] = "sendMail"]_vars

\* alert 2 (gasoline95 of station 2, target 600) was notified at the first
\* clock value and again two clock steps, 26 hours, later, the price having
\* stayed at 600, the target and the floor, all along
C21_NotifiedTwice ==
    /\ notifLog[2] = <<TimeStep, 3 * TimeStep>>
    /\ stations[2].fuelTypes["gasoline95"].price = 600
    /\ stations[2].fuelTypes["gasoline95"].lastUpdated = 3 * TimeStep
    /\ users[2].priceAlerts[1].lastTriggered = 3 * TimeStep
    /\ 2 * TimeStep > DayMs

\* C28: a run whose Alert Evaluator read the users, and in which no mail
\* send and no save of a user failed, has returned without entering the
\* catch block of the evaluator
C28_FinishesNormally ==
    \A r \in Runs :
        ( /\ pc[r] = "done"
          /\ passLog[r].evaluatorCalled
          /\ passLog[r].usersRead # {}
          /\ passLog[r].mailFailed = {}
          /\ passLog[r].userSaveFailed = {} )
        => ~passLog[r].alertsCaught

\* C5: two batch entries of one alert are never less than 24 hours apart
C5_OncePerDay ==
    \A a \in AlertIds : \A i, j \in DOMAIN notifLog[a] :
        i < j => notifLog[a][j] - notifLog[a][i] >= DayMs

----------------------------------------------------------------------------
(* Failures *)

\* C8: a run in which the save of a station failed has saved every other
\* station it read and has called the Alert Evaluator
C8_StationFailureIsolated ==
    \A r \in Runs :
        (pc[r] = "done" /\ passLog[r].stationFailed # {})
        => /\ passLog[r].stationsRead \ passLog[r].stationFailed
                  \subseteq passLog[r].stationsSaved
           /\ passLog[r].evaluatorCalled

\* C9: a run of the evaluator in which a mail send failed, and no store
\* operation did, has evaluated every user it read, and has called the
\* notifier once and attempted the send for every user with a batch
C9_MailFailureIsolated ==
    \A r \in Runs :
        ( /\ pc[r] = "done"
          /\ passLog[r].mailFailed # {}
          /\ passLog[r].userSaveFailed = {} )
        => /\ passLog[r].usersEvaluated = passLog[r].usersRead
           /\ \A u \in passLog[r].usersRead :
                 passLog[r].batchSize[u] > 0
                 => /\ passLog[r].notifierCalls[u] = 1
                    /\ u \in passLog[r].mailSent \cup passLog[r].mailFailed

\* the send for user 1 failed and the later user 2 was still notified
C9_LaterUserNotified ==
    \E r \in Runs :
        /\ pc[r] = "done"
        /\ 1 \in passLog[r].mailFailed
        /\ 2 \in passLog[r].mailSent

\* C10: once a run whose stores all succeeded has returned, every alert it
\* triggered for a user whose mail send failed is stored with lastTriggered
\* = the pass time, and the evaluator's window test suppresses it at every
\* time less than 24 hours later
C10_TimestampsKept ==
    \A r \in Runs :
        (pc[r] = "done" /\ passLog[r].userSaveFailed = {})
        => \A u \in passLog[r].mailFailed :
              /\ u \in passLog[r].usersSaved
              /\ \A i \in DOMAIN users[u].priceAlerts :
                    users[u].priceAlerts[i]._id \in passLog[r].triggered
                    => /\ users[u].priceAlerts[i].lastTriggered = now
                       /\ \A k \in 0..(MaxClock + 2) :
                             ( /\ k * TimeStep >= now
                               /\ k * TimeStep - now < DayMs )
                             => ~NotRecently(
                                    users[u].priceAlerts[i].lastTriggered,
                                    k * TimeStep)

\* the send for user 1 failed and alert 1 is stored as triggered now
C10_KeptAfterFailure ==
    \E r \in Runs :
        /\ pc[r] = "done"
        /\ 1 \in passLog[r].mailFailed
        /\ 1 \in passLog[r].triggered
        /\ users[1].priceAlerts[1].lastTriggered = now

----------------------------------------------------------------------------
(* The users API *)

\* C6: a POST /api/users/alerts that passes validation, whose store
\* operations succeed and whose stationId is the id of no station is
\* answered 404 and leaves every user's alert list as it was
C6_UnknownStation404 ==
    [][( /\ response' # response
         /\ response'.op = "POST /alerts"
         /\ IsMongoId(response'.params.stationId)
         /\ response'.params.fuelType \in Fuel
         /\ response'.params.storeOk
         /\ CastObjectId(response'.params.stationId) \notin StationIds )
       => /\ response'.status = 404
          /\ users' = users]_vars

\* a POST for a well-formed id of no station has been answered 404
C6_Answered404 ==
    /\ response.op = "POST /alerts"
    /\ response.status = 404
    /\ IsMongoId(response.params.stationId)
    /\ CastObjectId(response.params.stationId) \notin StationIds

\* C22: a PUT /api/users/profile request, whatever its body and whatever it
\* is answered, leaves the user's email, password, favoriteStations,
\* priceAlerts and every other field but firstName, lastName, phone and
\* preferences as they were, leaves every preference key the body does not
\* supply at its previous value, and leaves the other users alone
C22_ProfileFrame ==
    [][response'.op = "PUT /profile" =>
          LET u == response'.params.user
              body == response'.params.body
          IN  /\ users'[u].email = users[u].email
              /\ users'[u].password = users[u].password
              /\ users'[u].favoriteStations = users[u].favoriteStations
              /\ users'[u].priceAlerts = users[u].priceAlerts
              /\ [users'[u] EXCEPT !.firstName = users[u].firstName,
                                   !.lastName = users[u].lastName,
                                   !.phone = users[u].phone,
                                   !.preferences = users[u].preferences]
                    = users[u]
              /\ \A k \in PreferenceKeys :
                    body.preferences[k] = "undefined"
                        => users'[u].preferences[k] = users[u].preferences[k]
              /\ \A v \in UserIds \ {u} : users'[v] = users[v]]_vars

\* a request with an email and two preferences in its body was answered 200:
\* the two preferences are set, emailNotifications is still off as an
\* earlier request left it, the names are those an earlier request set, and
\* the email, the password, the favorite and the alerts are the user's own
C22_ProfileUpdated ==
    /\ response.op = "PUT /profile"
    /\ response.status = 200
    /\ response.params.body.email = "eve@example.com"
    /\ users[1].preferences.pushNotifications
    /\ users[1].preferences.preferredFuelType = "diesel"
    /\ ~users[1].preferences.emailNotifications
    /\ users[1].firstName = "Dana"
    /\ users[1].email = "avi@example.com"
    /\ users[1].password = "hash1"
    /\ users[1].favoriteStations = <<1>>
    /\ Len(users[1].priceAlerts) = 2

\* C16: no step of a request to the API changes the lastTriggered of an
\* alert that is in the user's list before and after the step
C16_OnlyEvaluatorSets ==
    [][(req' # req \/ response' # response) =>
          \A u \in UserIds :
              \A i \in DOMAIN users[u].priceAlerts :
                  \A j \in DOMAIN users'[u].priceAlerts :
                      users'[u].priceAlerts[j]._id = users[u].priceAlerts[i]._id
                      => users'[u].priceAlerts[j].lastTriggered
                             = users[u].priceAlerts[i].lastTriggered]_vars

\* C29: once a DELETE /api/users/alerts/:alertId has been answered 200, in
\* every later state, whatever the runs in flight store after it, the user
\* has no alert whose id the alertId of the request spells
C29_DeletedStaysDeleted ==
    ( /\ response.op = "DELETE /alerts/:alertId"
      /\ response.status = 200
      /\ IsMongoId(response.params.alertId) )
    => \A i \in DOMAIN users[response.params.user].priceAlerts :
           users[response.params.user].priceAlerts[i]._id
               # CastObjectId(response.params.alertId)

\* C30: a user's favorites list has no station twice and only stations of
\* the store; a POST /api/users/favorites whose store operations succeed,
\* for a station that is in the list, is answered 400, and a DELETE
\* /api/users/favorites/:stationId for a station that is not in the list is
\* answered 200, both leaving the list as it was
C30_FavoritesAreASet ==
    /\ [](\A u \in UserIds :
             /\ \A i, j \in DOMAIN users[u].favoriteStations :
                   users[u].favoriteStations[i] = users[u].favoriteStations[j]
                       => i = j
             /\ \A i \in DOMAIN users[u].favoriteStations :
                   users[u].favoriteStations[i] \in DOMAIN stations)
    /\ [][( /\ response' # response
            /\ response'.op \in {"POST /favorites",
                                 "DELETE /favorites/:stationId"}
            /\ response'.params.storeOk
            /\ IsMongoId(response'.params.stationId) )
          => LET u == response'.params.user
                 listed == \E i \in DOMAIN users[u].favoriteStations :
                               users[u].favoriteStations[i]
                                   = CastObjectId(response'.params.stationId)
             IN  /\ (response'.op = "POST /favorites" /\ listed)
                        => /\ response'.status = 400
                           /\ users' = users
                 /\ (response'.op = "DELETE /favorites/:stationId"
                         /\ ~listed)
                        => /\ response'.status = 200
                           /\ users' = users]_vars

\* C20: a PUT or DELETE /api/users/alerts/:alertId whose store operations
\* succeed and whose alertId is the id of none of the user's alerts is
\* answered 404 and leaves every user's alert list as it was
C20_UnknownAlert404 ==
    [][( /\ response' # response
         /\ response'.op \in {"PUT /alerts/:alertId", "DELETE /alerts/:alertId"}
         /\ response'.params.storeOk
         /\ \/ ~IsMongoId(response'.params.alertId)
            \/ \A i \in DOMAIN users[response'.params.user].priceAlerts :
                  users[response'.params.user].priceAlerts[i]._id
                      # CastObjectId(response'.params.alertId) )
       => /\ response'.status = 404
          /\ users' = users]_vars

\* C7: no user has two alerts for the same station and fuel type
C7_OneAlertPerPair ==
    \A u \in UserIds : \A i, j \in DOMAIN users[u].priceAlerts :
        ( /\ users[u].priceAlerts[i].stationId
                 = users[u].priceAlerts[j].stationId
          /\ users[u].priceAlerts[i].fuelType
                 = users[u].priceAlerts[j].fuelType )
        => i = j

----------------------------------------------------------------------------
(* The schedules *)

\* C11: the two-hour trigger starts a run whenever the clock reaches minute
\* 0 of an even hour and at no other time, and the thirty-minute trigger
\* starts a run only at times from 08:00 to 20:00
C11_Windows ==
    [][/\ now' # now =>
             ( RunStarts("every2h")
                 <=> (MinuteOf(now') = 0 /\ HourOf(now') % 2 = 0) )
       /\ RunStarts("every30m") =>
             ( /\ MinuteOfDay(now') >= 8 * 60
               /\ MinuteOfDay(now') <= 20 * 60 )]_vars

----------------------------------------------------------------------------
(* The stations API *)

\* C17 as stated: a PUT /api/stations/:id answered 200 stores the price of
\* every fuel type the body has a price for, as given, with lastUpdated =
\* now, sets lastScraped = now and leaves the other fuel types as they were
C17_EverySuppliedPriceStored ==
    [][( /\ (response' # response \/ stations' # stations)
         /\ response'.op = "PUT /stations/:id"
         /\ response'.status = 200 )
       => LET p == response'.params
              s == CastObjectId(p.id)
          IN  /\ stations'[s].lastScraped = now
              /\ \A f \in Fuel :
                    IF p.fuelTypes[f] # Undefined
                    THEN stations'[s].fuelTypes[f] = Price(p.fuelTypes[f], now)
                    ELSE stations'[s].fuelTypes[f] = stations[s].fuelTypes[f]]_vars

\* C17: a PUT /api/stations/:id for an existing station whose store
\* operations succeed is answered 200; it stores the price of every fuel type
\* the body has a price other than zero for, as given, with lastUpdated =
\* now, sets lastScraped = now, and leaves every other fuel type, every
\* other station and every user as they were; a PUT answered otherwise
\* changes nothing
C17_SuppliedPriceStored ==
    [][( /\ (response' # response \/ stations' # stations)
         /\ response'.op = "PUT /stations/:id" )
       => LET p == response'.params
              s == CastObjectId(p.id)
          IN  /\ response'.status = 200
                    <=> (p.storeOk /\ IsMongoId(p.id) /\ s \in StationIds)
              /\ users' = users
              /\ IF response'.status = 200
                 THEN /\ stations'[s].lastScraped = now
                      /\ \A f \in Fuel :
                            IF Truthy(p.fuelTypes[f])
                            THEN stations'[s].fuelTypes[f]
                                     = Price(p.fuelTypes[f], now)
                            ELSE stations'[s].fuelTypes[f]
                                     = stations[s].fuelTypes[f]
                      /\ \A o \in StationIds \ {s} : stations'[o] = stations[o]
                 ELSE stations' = stations]_vars

\* a PUT has stored a diesel price under the floor for station 1, at a time
\* after the stamps of its other fuel types, which are as they were
C17_UnderFloorStored ==
    /\ response.op = "PUT /stations/:id"
    /\ response.status = 200
    /\ response.params.id = Hex(1, "lower")
    /\ stations[1].fuelTypes["diesel"] = Price(550, now)
    /\ 550 < Floor["diesel"]
    /\ stations[1].lastScraped = now
    /\ stations[1].fuelTypes["gasoline95"] = Price(605, 0)
    /\ now = 2 * TimeStep

----------------------------------------------------------------------------
(* Requests that race with a run *)

\* C19: when the store holds, for a fuel type of a station, the price a
\* completed PUT /api/stations/:id stored, and a run that read another
\* price for it before saves the station, the run's save replaces the
\* PUT's price by the price the run computed from the price it read
C19_RunOverwritesPut ==
    [][\A r \in Runs :
          ( /\ StationSaved(r)
            /\ response.op = "PUT /stations/:id"
            /\ response.status = 200
            /\ CastObjectId(response.params.id) = stationDocs[r][si[r]]._id )
          => LET read == stationDocs[r][si[r]]
                 d == passLog'[r].draw
             IN  \A f \in Fuel :
                   LET new == MutatePrice(f, read.fuelTypes[f].price, d)
                   IN  ( /\ Truthy(response.params.fuelTypes[f])
                         /\ stations[read._id].fuelTypes[f].price
                                = response.params.fuelTypes[f]
                         /\ read.fuelTypes[f].price
                                # response.params.fuelTypes[f]
                         /\ new # read.fuelTypes[f].price )
                       => stations'[read._id].fuelTypes[f].price = new]_vars

\* a run read diesel of station 1 at 640; a PUT then stored 550 and was
\* answered 200; the run drew -10 and saved the station: the store holds
\* 630, and the 550 is gone
C19_PutOverwritten ==
    \E r \in Runs :
        /\ pc[r] = "stations"
        /\ si[r] = 2
        /\ stationDocs[r][1]._id = 1
        /\ stationDocs[r][1].fuelTypes["diesel"].price = 640
        /\ 1 \in passLog[r].stationsSaved
        /\ passLog[r].draw = -10
        /\ response.op = "PUT /stations/:id"
        /\ response.status = 200
        /\ response.params.id = Hex(1, "lower")
        /\ response.params.fuelTypes["diesel"] = 550
        /\ req = NoRequest
        /\ stations[1].fuelTypes["diesel"].price = 630

====
